---------------------------- MODULE Spec2Model ----------------------------
(***************************************************************************)
(* A model of the multi-registrar IPO allotment service                    *)
(* (IPOAllotmentService and the ten registrar checkers, the three company  *)
(* id caches and their resolvers).                                         *)
(*                                                                         *)
(* Strings are sequences of one-character strings, so that toLowerCase,    *)
(* trim, includes and the regular expressions of the source are computed   *)
(* and not assumed.  A JavaScript Map is a sequence of entries in          *)
(* insertion order.  Time is Date.now() in milliseconds.                   *)
(*                                                                         *)
(* A request runs from one outbound call (an await) to the next in one     *)
(* step: the step takes the response of the pending call, runs the code    *)
(* up to the next outbound call or to the return, and issues that call.    *)
(***************************************************************************)
EXTENDS Integers, Sequences, FiniteSets, TLC

\* ------------------------------------------------------------------------
\* Strings
\* ------------------------------------------------------------------------

UPPER == <<"A","B","C","D","E","F","G","H","I","J","K","L","M",
           "N","O","P","Q","R","S","T","U","V","W","X","Y","Z">>
LOWER == <<"a","b","c","d","e","f","g","h","i","j","k","l","m",
           "n","o","p","q","r","s","t","u","v","w","x","y","z">>
DIGITS == {"0","1","2","3","4","5","6","7","8","9"}

Range(s) == { s[i] : i \in DOMAIN s }

\* String.prototype.toLowerCase, one character
LowerChar(c) ==
    IF \E i \in DOMAIN UPPER : UPPER[i] = c
    THEN LOWER[CHOOSE i \in DOMAIN UPPER : UPPER[i] = c]
    ELSE c

\* String.prototype.toLowerCase
toLowerCase(s) == [ i \in DOMAIN s |-> LowerChar(s[i]) ]

IsSpace(c) == c = " "
IsWordChar(c) == c \in Range(LOWER) \cup Range(UPPER) \cup DIGITS \cup {"_"}

\* String.prototype.trim
trim(s) ==
    IF \A i \in DOMAIN s : IsSpace(s[i]) THEN <<>>
    ELSE LET first == CHOOSE i \in DOMAIN s :
                         ~IsSpace(s[i]) /\ \A j \in 1..(i-1) : IsSpace(s[j])
             last  == CHOOSE i \in DOMAIN s :
                         ~IsSpace(s[i]) /\ \A j \in (i+1)..Len(s) : IsSpace(s[j])
         IN SubSeq(s, first, last)

\* String.prototype.includes: t occurs in s as a contiguous substring
includes(s, t) ==
    \E i \in 0..(Len(s) - Len(t)) : SubSeq(s, i + 1, i + Len(t)) = t

\* /^\d+$/.test(s)
IsNumeric(s) == Len(s) > 0 /\ \A i \in DOMAIN s : s[i] \in DIGITS

\* ------------------------------------------------------------------------
\* Program constants
\* ------------------------------------------------------------------------

CACHE_DURATION == 24 * 60 * 60 * 1000
MAX_CACHE_SIZE == 1000

\* The keys of registrarCheckers, in the order Object.entries lists them
RegistrarOrder == << "bigshare", "kfintech", "linkintime", "skyline", "cameo",
                     "mas", "maashitla", "beetal", "purva", "mufg" >>
RegistrarType == Range(RegistrarOrder)

\* null / undefined, where a string is expected (strings are sequences)
Null == << "null" >>
\* null / undefined, elsewhere
None == "none"


\* ------------------------------------------------------------------------
\* Map<string, { id, timestamp }>: the entries in insertion order.  An entry
\* is [key, id, timestamp] and two fields that are not program state: by, the
\* registrar whose check wrote it, and failed, whether a listing fetch of the
\* resolver call that wrote it failed at transport level.
\* ------------------------------------------------------------------------

MapHas(m, k) == \E i \in DOMAIN m : m[i].key = k

\* Map.prototype.get (only used where MapHas holds)
MapGet(m, k) == m[CHOOSE i \in DOMAIN m : m[i].key = k]

\* Map.prototype.set: an existing key keeps its place in the iteration order
MapSet(m, e) ==
    IF MapHas(m, e.key)
    THEN [ i \in DOMAIN m |-> IF m[i].key = e.key THEN e ELSE m[i] ]
    ELSE Append(m, e)

\* Map.prototype.delete
MapDelete(m, k) == SelectSeq(m, LAMBDA e : e.key # k)

\* for (...) if (now - value.timestamp > CACHE_DURATION) delete
RemoveExpired(m, now) ==
    SelectSeq(m, LAMBDA e : ~(now - e.timestamp > CACHE_DURATION))

\* The first entry, in iteration order, among those with the least timestamp:
\* the head of entries.sort((a, b) => a[1].timestamp - b[1].timestamp), the
\* sort being stable.
OldestKey(m) ==
    LET ts  == { m[i].timestamp : i \in DOMAIN m }
        min == CHOOSE t \in ts : \A u \in ts : t <= u
    IN Head(SelectSeq(m, LAMBDA e : e.timestamp = min)).key

\* entries.slice(0, n) of the sorted entries, deleted one after the other
RECURSIVE RemoveOldest(_, _)
RemoveOldest(m, n) ==
    IF n <= 0 \/ m = <<>> THEN m
    ELSE RemoveOldest(MapDelete(m, OldestKey(m)), n - 1)

\* The size limit kept by dropping what was inserted last
EnforceSizeLimit_newest(m) ==
    IF Len(m) > MAX_CACHE_SIZE THEN SubSeq(m, 1, MAX_CACHE_SIZE) ELSE m

EnforceSizeLimit(m) ==
    IF Len(m) > MAX_CACHE_SIZE THEN RemoveOldest(m, Len(m) - MAX_CACHE_SIZE)
    ELSE m

\* The sweep that enforces the size limit only
cleanupCache_sizeOnly(m, now) == EnforceSizeLimit(m)

\* cleanupCache(): the BigShare cache after the sweep
cleanupCache(m, now) == EnforceSizeLimit(RemoveExpired(m, now))

\* cleanupMufgCache()
cleanupMufgCache(m, now) == EnforceSizeLimit(RemoveExpired(m, now))

\* cleanupPurvaCache()
cleanupPurvaCache(m, now) == EnforceSizeLimit(RemoveExpired(m, now))

\* const cacheKey = ipoName.toLowerCase().trim()
cacheKey(ipoName) == trim(toLowerCase(ipoName))

\* The test of an entry's age turned round: only an expired entry answers
CacheFresh_expired(m, k, now) ==
    MapHas(m, k) /\ (now - MapGet(m, k).timestamp) >= CACHE_DURATION

\* The test without the entry's age: an entry answers whenever there is one
CacheFresh_forever(m, k, now) == MapHas(m, k)

\* cached && (Date.now() - cached.timestamp) < CACHE_DURATION
CacheFresh(m, k, now) ==
    MapHas(m, k) /\ (now - MapGet(m, k).timestamp) < CACHE_DURATION

\* ------------------------------------------------------------------------
\* The name matching of the three resolvers
\* ------------------------------------------------------------------------

\* The i-th element, in increasing order, of a finite set of integers
NthOf(S, n) == CHOOSE i \in S : Cardinality({ j \in S : j <= i }) = n

\* The characters of s at the positions of K, in order
KeepAt(s, K) == [ n \in 1..Cardinality(K) |-> s[NthOf(K, n)] ]

\* The maximal run of characters satisfying In(_) that contains position i
RunStart(s, i, In(_)) ==
    CHOOSE a \in 1..i : (\A j \in a..i : In(s[j])) /\ (a = 1 \/ ~In(s[a - 1]))
RunEnd(s, i, In(_)) ==
    CHOOSE b \in i..Len(s) :
        (\A j \in i..b : In(s[j])) /\ (b = Len(s) \/ ~In(s[b + 1]))

StopWords == { <<"l","i","m","i","t","e","d">>, <<"l","t","d">>, <<"p","v","t">>,
               <<"p","r","i","v","a","t","e">>, <<"c","o","m","p","a","n","y">>,
               <<"c","o","r","p">>, <<"c","o","r","p","o","r","a","t","i","o","n">>,
               <<"i","n","c">>, <<"i","n","c","o","r","p","o","r","a","t","e","d">> }

\* s.replace(/\b(limited|ltd|pvt|private|company|corp|corporation|inc|incorporated)\b/g, '')
\* .trim(): a match lies between two word boundaries and holds word characters
\* only, so it is a whole maximal run of word characters.
RemoveStopWords(s) ==
    LET Del == { i \in DOMAIN s :
                   IsWordChar(s[i]) /\
                   SubSeq(s, RunStart(s, i, IsWordChar), RunEnd(s, i, IsWordChar))
                       \in StopWords }
    IN trim(KeepAt(s, DOMAIN s \ Del))

NotSpace(c) == ~IsSpace(c)

\* The start positions of s.split(/\s+/).filter(word => word.length > 2)
WordStarts(s) ==
    { i \in DOMAIN s :
        /\ NotSpace(s[i])
        /\ (i = 1 \/ IsSpace(s[i - 1]))
        /\ RunEnd(s, i, NotSpace) - i + 1 > 2 }
WordAt(s, i) == SubSeq(s, i, RunEnd(s, i, NotSpace))

\* The four tests of the BigShare option loop, on the lower-cased option text
ExactMatch(optionText, searchName) == optionText = searchName

PartialMatch(optionText, searchName) ==
    includes(optionText, searchName) \/ includes(searchName, optionText)

FuzzyMatch(optionText, searchName) ==
    LET Either(cleanOptionText, cleanSearchName) ==
            includes(cleanOptionText, cleanSearchName)
            \/ includes(cleanSearchName, cleanOptionText)
    IN Either(RemoveStopWords(optionText), RemoveStopWords(searchName))

\* matchingWords: the search words that contain, or are contained in, some
\* option word
MatchingWords(co, cs) ==
    Cardinality({ a \in WordStarts(cs) :
                    \E b \in WordStarts(co) :
                        includes(WordAt(co, b), WordAt(cs, a))
                        \/ includes(WordAt(cs, a), WordAt(co, b)) })

\* The word test accepting only above one half
WordMatch_aboveHalf(optionText, searchName) ==
    LET Ratio(co, cs) ==
            /\ Cardinality(WordStarts(cs)) > 0
            /\ 2 * MatchingWords(co, cs) > Cardinality(WordStarts(cs))
    IN Ratio(RemoveStopWords(optionText), RemoveStopWords(searchName))

\* searchWords.length > 0 && matchingWords / searchWords.length >= 0.5, the
\* words being those of the cleaned texts
WordMatch(optionText, searchName) ==
    LET Ratio(co, cs) ==
            /\ Cardinality(WordStarts(cs)) > 0
            /\ 2 * MatchingWords(co, cs) >= Cardinality(WordStarts(cs))
    IN Ratio(RemoveStopWords(optionText), RemoveStopWords(searchName))

\* An <option>: its text and its value attribute.  The default options are
\* skipped: !optionValue || optionValue === '0' || optionText.includes('select')
SELECT_WORD == <<"s","e","l","e","c","t">>
BigshareOptionSkipped(opt) ==
    \/ opt.value = <<>>
    \/ opt.value = <<"0">>
    \/ includes(toLowerCase(trim(opt.text)), SELECT_WORD)

BigshareLadder(optionText, searchName) ==
    \/ ExactMatch(optionText, searchName)
    \/ PartialMatch(optionText, searchName)
    \/ FuzzyMatch(optionText, searchName)
    \/ WordMatch(optionText, searchName)

BigshareOptionMatches(opt, ipoName) ==
    /\ ~BigshareOptionSkipped(opt)
    /\ BigshareLadder(toLowerCase(trim(opt.text)), trim(toLowerCase(ipoName)))

\* The value of the first of the options found to match, or null
FirstValue(matching) == IF matching = <<>> THEN Null ELSE matching[1].value

\* companyOptions.each(...): the value of the first option that matches, or null
BigshareScanOptions(options, ipoName) ==
    FirstValue(SelectSeq(options, LAMBDA opt : BigshareOptionMatches(opt, ipoName)))

\* A listing page: its <select> elements, each with id, name and options.
\* The five selectors of the source, in order.
COMPANY_WORD == <<"C","o","m","p","a","n","y">>
DDL_COMPANY == <<"d","d","l">> \o COMPANY_WORD
RECURSIVE Flatten(_)
Flatten(ss) == IF ss = <<>> THEN <<>> ELSE Head(ss) \o Flatten(Tail(ss))
OptionsOf(selects) == Flatten([ i \in DOMAIN selects |-> selects[i].options ])
BigshareSelectors(page) ==
    << OptionsOf(SelectSeq(page, LAMBDA sel : sel.id = DDL_COMPANY)),
       OptionsOf(SelectSeq(page, LAMBDA sel : sel.name = DDL_COMPANY)),
       OptionsOf(SelectSeq(page, LAMBDA sel : includes(sel.id, COMPANY_WORD))),
       OptionsOf(SelectSeq(page, LAMBDA sel : includes(sel.name, COMPANY_WORD))),
       OptionsOf(page) >>

\* for (const selector of selectors): the first selector whose options hold a
\* match decides
BigshareScanPage(page, ipoName) ==
    LET First(found) == IF found = <<>> THEN Null ELSE found[1]
        Each(sels) == [i \in DOMAIN sels |-> BigshareScanOptions(sels[i], ipoName)]
    IN First(SelectSeq(Each(BigshareSelectors(page)), LAMBDA id : id # Null))

\* searchName.replace(/[^a-z0-9]/g, '')
Normalize(s) == SelectSeq(s, LAMBDA c : c \in Range(LOWER) \cup DIGITS)

\* The test of the MUFG company loop on one <Table> of the company list
MufgTableMatches(tbl, ipoName) ==
    LET Test(searchName, companyNameLower, normalizedSearch, normalizedCompany) ==
            \/ includes(companyNameLower, searchName)
            \/ includes(searchName, companyNameLower)
            \/ includes(normalizedCompany, normalizedSearch)
            \/ includes(normalizedSearch, normalizedCompany)
            \/ includes(toLowerCase(tbl.companyname), searchName)
        Names(searchName, companyNameLower) ==
            Test(searchName, companyNameLower,
                 Normalize(searchName), Normalize(companyNameLower))
    IN /\ tbl.companyname # <<>>
       /\ tbl.company_id # <<>>
       /\ Names(trim(toLowerCase(ipoName)), trim(toLowerCase(tbl.companyname)))

\* The company_id of the first <Table> that matches, or null
MufgScanTables(tables, ipoName) ==
    LET First(matching) == IF matching = <<>> THEN Null ELSE matching[1].company_id
    IN First(SelectSeq(tables, LAMBDA tbl : MufgTableMatches(tbl, ipoName)))

\* The test of the Purva option loop
PurvaOptionMatches(opt, ipoName) ==
    /\ opt.value # <<>>
    /\ includes(toLowerCase(trim(opt.text)), toLowerCase(ipoName))

PurvaScanOptions(options, ipoName) ==
    FirstValue(SelectSeq(options, LAMBDA opt : PurvaOptionMatches(opt, ipoName)))

\* ------------------------------------------------------------------------
\* Requests, responses and results
\* ------------------------------------------------------------------------

\* A value of req.body.ipoName that is truthy and is not a string (the
\* controller only tests !ipoName): String methods are not defined on it.
NonString == << "[object Object]" >>
IsString(ipoName) == ipoName # NonString

\* error.message of the errors the HTTP client raises
ErrorMessage(kind) ==
    CASE kind = "timeout" -> "timeout of 30000ms exceeded"
      [] kind = "network" -> "Network Error"
      [] kind = "http404" -> "Request failed with status code 404"
      [] kind = "http500" -> "Request failed with status code 500"
TYPE_ERROR == "TypeError"

\* A response to an outbound call: a payload, or a transport failure
Ok(data)   == [ok |-> TRUE, kind |-> "http200", data |-> data]
Fail(kind) == [ok |-> FALSE, kind |-> kind]

\* A payload is a record with its type; a payload of an unexpected type, on
\* which the parsing code raises, has type "garbage".
Garbage == [type |-> "garbage"]
IsGarbage(data) == data.type = "garbage"
\* A field of a payload that is not a string where the code expects one
NotAString == << "[object Object]" >>

\* An IPOAllotmentResponse.  basis is not a field of the program: it records
\* the cache entry the checker's company id was read from, if any (who wrote
\* it, and whether it was written because the listing fetch failed).
NoBasis == [by |-> None, failed |-> FALSE]
\* allotmentDetails: undefined
NoDetails == [allotmentStatus |-> Null, status |-> None]
Result(success, registrar, status, error, details, allotmentDetails, basis) ==
    [success |-> success, registrar |-> registrar, status |-> status,
     error |-> error, details |-> details, allotmentDetails |-> allotmentDetails,
     basis |-> basis]

\* What a lookup in a cache gives when the key has no entry
NoEntry == [key |-> <<>>, id |-> Null, timestamp |-> -1, by |-> None, failed |-> FALSE]

\* The local variables of a suspended checker
NoLoc == [companyId |-> Null, token |-> Null, url |-> 0, endpoint |-> 0,
          captcha |-> 0, csrf |-> Null, rand |-> Null, basis |-> NoBasis,
          rStart |-> 0, rFetches |-> 0, rPrior |-> NoEntry]

\* What running the code up to the next outbound call gives: the call it
\* awaits, the value it returns or the error it throws; and the caches then.
Await(call, loc, store) == [k |-> "await", call |-> call, loc |-> loc, store |-> store]
Return(val, store)      == [k |-> "return", val |-> val, store |-> store]
Throw(msg, store)       == [k |-> "throw", val |-> msg, store |-> store]

\* The record of a completed resolver call (not program state): which
\* resolver, for which registrar, the key, when it started and ended, how
\* many listing fetches it made, what it returned, and the entry it found
\* under the key when it started.
EntryAt(m, k) == IF MapHas(m, k) THEN MapGet(m, k) ELSE NoEntry
Logged(store, rec) ==
    [store EXCEPT !.resolves =
        IF Len(@) < 2 THEN Append(@, rec) ELSE << @[2], rec >>]

\* ------------------------------------------------------------------------
\* getBigshareCompanyId and checkBigshare
\* ------------------------------------------------------------------------

\* urlsToTry
BigshareUrls == << "https://ipo.bigshareonline.com/",
                   "https://ipo.bigshareonline.com/Default.aspx" >>

\* An outbound call
Call(registrar, kind, url, company, pan, token, captcha) ==
    [registrar |-> registrar, kind |-> kind, url |-> url, company |-> company,
     pan |-> pan, token |-> token, captcha |-> captcha]

\* The end of a resolver call: what it gives its caller, and the log
Resolved(fn, reg, key, loc, now, id, basis, prior, store) ==
    [k |-> "value", val |-> id, basis |-> basis,
     store |-> Logged(store, [fn |-> fn, reg |-> reg, key |-> key,
                              start |-> loc.rStart, end |-> now,
                              fetches |-> loc.rFetches, ret |-> id,
                              prior |-> prior, raised |-> FALSE])]

\* A resolver call that ends in ipoName.toLowerCase raising, before the try
Raised(fn, reg, now, store) ==
    [k |-> "throw", val |-> TYPE_ERROR,
     store |-> Logged(store, [fn |-> fn, reg |-> reg, key |-> <<>>,
                              start |-> now, end |-> now, fetches |-> 0,
                              ret |-> Null, prior |-> NoEntry, raised |-> TRUE])]

\* getBigshareCompanyId up to its first fetch: the cache check
getBigshareCompanyId(store, reg, ipoName, now) ==
    IF ~IsString(ipoName) THEN Raised("getBigshareCompanyId", reg, now, store)
    ELSE LET key    == cacheKey(ipoName)
             cached == EntryAt(store.bigshareCompanyIdCache, key)
             loc    == [NoLoc EXCEPT !.rStart = now, !.rPrior = cached]
         IN IF CacheFresh(store.bigshareCompanyIdCache, key, now)
            THEN Resolved("getBigshareCompanyId", reg, key, loc, now, cached.id,
                          [by |-> cached.by, failed |-> cached.failed], cached, store)
            ELSE [k |-> "await", url |-> 1, loc |-> [loc EXCEPT !.url = 1],
                  store |-> store]

\* bigshareCompanyIdCache.set(cacheKey, { id, timestamp: Date.now() }); cleanupCache()
BigshareCachePut(store, key, id, now, reg, failed) ==
    [store EXCEPT !.bigshareCompanyIdCache =
        cleanupCache(MapSet(@, [key |-> key, id |-> id, timestamp |-> now,
                                by |-> reg, failed |-> failed]), now)]

\* getBigshareCompanyId from the response to the fetch of urlsToTry[loc.url]
getBigshareCompanyId_fetched(store, reg, ipoName, loc, resp, now) ==
    LET key     == cacheKey(ipoName)
        prior   == loc.rPrior
        failed  == loc.basis.failed \/ ~resp.ok
        loc1    == [loc EXCEPT !.rFetches = @ + 1,
                               !.basis = [by |-> reg, failed |-> failed]]
        Found(companyId) ==
            IF companyId # Null
            THEN Resolved("getBigshareCompanyId", reg, key, loc1, now, companyId,
                          loc1.basis, prior,
                          BigshareCachePut(store, key, companyId, now, reg, failed))
            ELSE IF loc.url < Len(BigshareUrls)
            THEN [k |-> "await", url |-> loc.url + 1,
                  loc |-> [loc1 EXCEPT !.url = loc.url + 1], store |-> store]
            ELSE Resolved("getBigshareCompanyId", reg, key, loc1, now, Null,
                          loc1.basis, prior,
                          BigshareCachePut(store, key, Null, now, reg, failed))
    \* cheerio.load or the scan raising is caught with the fetch errors
    IN Found(IF resp.ok /\ ~IsGarbage(resp.data)
             THEN BigshareScanPage(resp.data.selects, ipoName) ELSE Null)

\* The texts the BigShare classification looks for
STR_allot     == <<"a","l","l","o","t">>
STR_non       == <<"n","o","n">>
STR_non_allot == <<"n","o","n","-","a","l","l","o","t">>
STR_not_allot == <<"n","o","t"," ","a","l","l","o","t">>

\* allotmentStatus of an application record, from data.ALLOTED || ''
BigshareClassify(alloted) ==
    LET v == toLowerCase(alloted)
    IN IF includes(v, STR_allot) /\ ~includes(v, STR_non) THEN "Allotted"
       ELSE IF includes(v, STR_non_allot) \/ includes(v, STR_not_allot)
       THEN "Not Allotted"
       ELSE "Pending"

\* data.APPLICATION_NO && data.APPLICATION_NO !== '' && data.DPID !== 'No data found'
BigshareHasRecord(d) == d.APPLICATION_NO # "" /\ d.DPID # "No data found"

\* checkBigshare from the company code on: the detail request is issued
checkBigshare_query(store, req, companyCode, basis) ==
    Await(Call("bigshare", "query", "/Data.aspx/FetchIpodetails", companyCode,
               req.panNo, Null, Null),
          [NoLoc EXCEPT !.companyId = companyCode, !.basis = basis], store)

\* checkBigshare answering without a detail request when the company id is
\* in the cache
checkBigshare_resolved_cached(g, req) ==
    IF g.basis.by # None
    THEN Return(Result(TRUE, "bigshare", "Allotted", None, None, NoDetails, g.basis),
                g.store)
    ELSE checkBigshare_query(g.store, req,
                             IF g.val # Null THEN g.val ELSE req.ipoName, g.basis)

\* checkBigshare leaving the resolved id unused
checkBigshare_resolved_unused(g, req) ==
    checkBigshare_query(g.store, req, req.ipoName, g.basis)

\* if (scrapedCompanyId) companyCode = scrapedCompanyId
checkBigshare_resolved(g, req) ==
    checkBigshare_query(g.store, req,
                        IF g.val # Null THEN g.val ELSE req.ipoName, g.basis)

BigshareListingCall(url) ==
    Call("bigshare", "list", BigshareUrls[url], Null, Null, Null, Null)

\* checkBigshare up to its first outbound call
checkBigshare(store, req, now) ==
    IF ~IsNumeric(req.ipoName)
    THEN LET Got(g) ==
                 CASE g.k = "throw" -> Throw(g.val, g.store)
                   [] g.k = "await" -> Await(BigshareListingCall(g.url), g.loc, g.store)
                   [] g.k = "value" -> checkBigshare_resolved(g, req)
         IN Got(getBigshareCompanyId(store, "bigshare", req.ipoName, now))
    ELSE checkBigshare_query(store, req, req.ipoName, NoBasis)

\* checkBigshare from the response to a listing fetch of its resolver
checkBigshare_listing(store, req, loc, resp, now) ==
    LET Got(g) ==
            CASE g.k = "await" -> Await(BigshareListingCall(g.url), g.loc, g.store)
              [] g.k = "value" -> checkBigshare_resolved(g, req)
    IN Got(getBigshareCompanyId_fetched(store, "bigshare", req.ipoName, loc, resp, now))

\* checkBigshare from the response to the detail request
checkBigshare_response(store, req, loc, resp) ==
    LET companyCode == loc.companyId
        details == IF companyCode # req.ipoName THEN "Used company ID" ELSE None
        error(msg) == Result(FALSE, "bigshare", "error", msg, None, NoDetails, loc.basis)
    IN IF ~resp.ok THEN Return(error(ErrorMessage(resp.kind)), store)
       ELSE IF IsGarbage(resp.data) \/ ~resp.data.hasD
       THEN Return(Result(TRUE, "bigshare", "unknown", None, details, NoDetails, loc.basis), store)
       ELSE IF ~BigshareHasRecord(resp.data.d)
       THEN Return(Result(TRUE, "bigshare", "No Record Found", None, details,
                          NoDetails, loc.basis), store)
       ELSE IF resp.data.d.ALLOTED = NotAString
       \* allotedValue.toLowerCase is not a function: caught by the catch
       THEN Return(error(TYPE_ERROR), store)
       ELSE LET allotmentStatus == BigshareClassify(resp.data.d.ALLOTED)
            IN Return(Result(TRUE, "bigshare", allotmentStatus, None, details,
                             [allotmentStatus |-> resp.data.d.ALLOTED,
                              status |-> allotmentStatus], loc.basis), store)

\* ------------------------------------------------------------------------
\* checkKfintech
\* ------------------------------------------------------------------------

\* checkKfintech sending the name along
checkKfintech_withName(store, req, now) ==
    Await(Call("kfintech", "query",
               "https://0uz601ms56.execute-api.ap-south-1.amazonaws.com/prod/api/query",
               req.ipoName, req.panNo, Null, Null),
          NoLoc, store)

\* checkKfintech up to its outbound call: the PAN travels in a header
checkKfintech(store, req, now) ==
    Await(Call("kfintech", "query",
               "https://0uz601ms56.execute-api.ap-south-1.amazonaws.com/prod/api/query",
               Null, req.panNo, Null, Null),
          NoLoc, store)

\* const data = response.data.data || response.data
KfintechData(payload) ==
    IF payload.hasData THEN payload.data
    ELSE [hasAllotted |-> payload.hasAllotted, allotted |-> payload.allotted,
          status |-> payload.status]

\* allotmentStatus of a response that is an object
KfintechClassify(payload) ==
    IF payload.status = "success" \/ payload.hasData
    THEN LET data == KfintechData(payload)
         IN IF data.hasAllotted /\ data.allotted > 0 THEN "Allotted"
            ELSE IF (data.hasAllotted /\ data.allotted = 0)
                    \/ data.status = "not_allotted"
            THEN "Not Allotted"
            ELSE "No Record Found"
    ELSE "No Record Found"

\* checkKfintech with a 404 branch that keeps the message of the error it caught
checkKfintech_response_404error(store, req, loc, resp) ==
    IF ~resp.ok /\ resp.kind = "http404"
    THEN Return(Result(TRUE, "kfintech", "No Record Found", ErrorMessage(resp.kind),
                       "No IPO allotment record found for the provided PAN number.",
                       NoDetails, NoBasis), store)
    ELSE Return(Result(FALSE, "kfintech", "Error", ErrorMessage("timeout"), None,
                       NoDetails, NoBasis), store)

\* checkKfintech without the special case of the 404
checkKfintech_response_no404(store, req, loc, resp) ==
    IF ~resp.ok
    THEN Return(Result(FALSE, "kfintech", "Error", ErrorMessage(resp.kind), None,
                       NoDetails, NoBasis), store)
    ELSE Return(Result(TRUE, "kfintech", "No Record Found", None, None,
                       NoDetails, NoBasis), store)

\* checkKfintech from the response
checkKfintech_response(store, req, loc, resp) ==
    LET error(msg) == Result(FALSE, "kfintech", "Error", msg, None, NoDetails, NoBasis)
    IN IF ~resp.ok
       THEN IF resp.kind = "http404"
            THEN Return(Result(TRUE, "kfintech", "No Record Found", None,
                               "No IPO allotment record found for the provided PAN number.",
                               NoDetails, NoBasis), store)
            ELSE Return(error(ErrorMessage(resp.kind)), store)
       ELSE IF IsGarbage(resp.data)
       THEN Return(Result(TRUE, "kfintech", "No Record Found", None, None,
                          NoDetails, NoBasis), store)
       ELSE IF ~(resp.data.status = "success" \/ resp.data.hasData)
               /\ resp.data.error = NotAString
       \* response.data.error.toLowerCase is not a function: caught by the catch
       THEN Return(error(TYPE_ERROR), store)
       ELSE LET allotmentStatus == KfintechClassify(resp.data)
            IN Return(Result(TRUE, "kfintech", allotmentStatus, None,
                             IF allotmentStatus = "No Record Found" THEN None
                             ELSE "allotmentDetails",
                             NoDetails, NoBasis), store)

\* ------------------------------------------------------------------------
\* checkHtmlRegistrar
\* ------------------------------------------------------------------------

\* config.baseUrl + config.endpoint of registrarConfigs
HtmlUrl(registrar) ==
    CASE registrar = "skyline"   -> "https://www.skylinerta.com/ipo.php"
      [] registrar = "mas"       -> "https://maservices.biz/ApplicationStatus.aspx"
      [] registrar = "maashitla" -> "https://www.maashitla.com/PublicIssues/Search"
      [] registrar = "beetal"    -> "https://www.beetalfinancial.com/"

\* checkHtmlRegistrar up to its outbound call; Maashitla gets the query string
checkHtmlRegistrar(registrar, store, req, now) ==
    Await(Call(registrar, "query", HtmlUrl(registrar),
               IF registrar = "maashitla" THEN req.ipoName ELSE Null,
               IF registrar = "maashitla" THEN req.panNo ELSE Null,
               Null, Null),
          NoLoc, store)

\* checkHtmlRegistrar from the response
checkHtmlRegistrar_response(registrar, store, req, loc, resp) ==
    IF resp.ok
    THEN Return(Result(TRUE, registrar, "parse_needed", None, None, NoDetails, NoBasis),
                store)
    ELSE Return(Result(FALSE, registrar, "error", ErrorMessage(resp.kind), None,
                       NoDetails, NoBasis), store)

\* ------------------------------------------------------------------------
\* getMufgCompanyId, checkLinkIntime and checkMufg
\* ------------------------------------------------------------------------

\* parseInt: blanks, a sign and the leading digits; NaN without a digit
DigitValue(c) ==
    CASE c = "0" -> 0 [] c = "1" -> 1 [] c = "2" -> 2 [] c = "3" -> 3 [] c = "4" -> 4
      [] c = "5" -> 5 [] c = "6" -> 6 [] c = "7" -> 7 [] c = "8" -> 8 [] c = "9" -> 9
RECURSIVE DigitsValue(_)
DigitsValue(ds) ==
    IF ds = <<>> THEN 0
    ELSE 10 * DigitsValue(SubSeq(ds, 1, Len(ds) - 1)) + DigitValue(ds[Len(ds)])
LeadingDigits(body) ==
    IF body = <<>> \/ body[1] \notin DIGITS THEN 0
    ELSE IF \A i \in DOMAIN body : body[i] \in DIGITS THEN Len(body)
    ELSE (CHOOSE i \in DOMAIN body :
             body[i] \notin DIGITS /\ \A j \in 1..(i - 1) : body[j] \in DIGITS) - 1
parseInt(text) ==
    LET Number(negative, body, n) ==
            [nan |-> n = 0,
             val |-> IF negative THEN 0 - DigitsValue(SubSeq(body, 1, n))
                     ELSE DigitsValue(SubSeq(body, 1, n))]
        Unsigned(negative, body) == Number(negative, body, LeadingDigits(body))
        Trimmed(s) ==
            IF Len(s) > 0 /\ s[1] \in {"+", "-"}
            THEN Unsigned(s[1] = "-", Tail(s))
            ELSE Unsigned(FALSE, s)
    IN Trimmed(trim(text))

MufgListingCall(reg) ==
    Call(reg, "list", "https://in.mpms.mufg.com/Initial_Offer/IPO.aspx/GetDetails",
         Null, Null, Null, Null)

\* getMufgCompanyId up to its fetch: the cache check
getMufgCompanyId(store, reg, ipoName, now) ==
    IF ~IsString(ipoName) THEN Raised("getMufgCompanyId", reg, now, store)
    ELSE LET key    == cacheKey(ipoName)
             cached == EntryAt(store.mufgCompanyIdCache, key)
             loc    == [NoLoc EXCEPT !.rStart = now, !.rPrior = cached]
         IN IF CacheFresh(store.mufgCompanyIdCache, key, now)
            THEN Resolved("getMufgCompanyId", reg, key, loc, now, cached.id,
                          [by |-> cached.by, failed |-> cached.failed], cached, store)
            ELSE [k |-> "await", loc |-> loc, store |-> store]

\* mufgCompanyIdCache.set(cacheKey, { id, timestamp: Date.now() }); cleanupMufgCache()
MufgCachePut(store, key, id, now, reg, failed) ==
    [store EXCEPT !.mufgCompanyIdCache =
        cleanupMufgCache(MapSet(@, [key |-> key, id |-> id, timestamp |-> now,
                                    by |-> reg, failed |-> failed]), now)]

\* getMufgCompanyId from the response to the fetch of the company list
getMufgCompanyId_fetched(store, reg, ipoName, loc, resp, now) ==
    LET key    == cacheKey(ipoName)
        prior  == loc.rPrior
        loc1   == [loc EXCEPT !.rFetches = @ + 1,
                              !.basis = [by |-> reg, failed |-> ~resp.ok]]
        Found(companyId) ==
            Resolved("getMufgCompanyId", reg, key, loc1, now, companyId, loc1.basis,
                     prior, MufgCachePut(store, key, companyId, now, reg, ~resp.ok))
    \* a payload that is not as expected raises inside the try, or has no d
    IN Found(IF resp.ok /\ ~IsGarbage(resp.data) /\ resp.data.hasD
             THEN MufgScanTables(resp.data.tables, ipoName) ELSE Null)

STR_shares_allotted == <<" ","s","h","a","r","e","s"," ","a","l","l","o","t","t","e","d">>
STR_Not_Allotted == <<"N","o","t"," ","A","l","l","o","t","t","e","d">>

\* The status read with an empty ALLOT taken as Pending
LinkIntimeClassify_emptyPending(allotted) ==
    LET Positive(n) == ~n.nan /\ n.val > 0
    IN IF allotted # <<>> /\ Positive(parseInt(allotted)) THEN "Allotted"
       ELSE IF allotted = <<"0">> THEN "Not Allotted"
       ELSE "Pending"

\* The allotment status checkLinkIntime reads from the first <Table>
LinkIntimeClassify(allotted) ==
    LET Positive(n) == ~n.nan /\ n.val > 0
    IN IF allotted # <<>> /\ Positive(parseInt(allotted)) THEN "Allotted"
       ELSE IF allotted = <<"0">> \/ allotted = <<>> THEN "Not Allotted"
       ELSE "Pending"

\* The status checkLinkIntime gives a parsed search response
LinkIntimeStatus(payload) ==
    IF IsGarbage(payload) \/ ~payload.hasD THEN "unknown"
    ELSE IF Len(payload.tables) > 0 THEN LinkIntimeClassify(payload.tables[1].ALLOT)
    ELSE IF payload.hasTable1
    THEN IF payload.msg # <<>> THEN "No Record Found" ELSE "unknown"
    ELSE "No Record Found"

LinkIntimeDetails(payload) ==
    IF ~IsGarbage(payload) /\ payload.hasD /\ Len(payload.tables) > 0
    THEN LET allotted == payload.tables[1].ALLOT
         IN [allotmentStatus |-> IF allotted = <<"0">> THEN STR_Not_Allotted
                                 ELSE allotted \o STR_shares_allotted,
             status |-> LinkIntimeClassify(allotted)]
    ELSE NoDetails

LinkIntimeError(msg, basis) ==
    Result(FALSE, "linkintime", "error", msg, None, NoDetails, basis)

\* checkLinkIntime from the company id on
checkLinkIntime_resolved(g, req) ==
    LET companyId == IF g.val = Null /\ IsNumeric(req.ipoName) THEN req.ipoName
                     ELSE g.val
    IN IF companyId = Null
       THEN Return(LinkIntimeError("No company found for IPO name", g.basis), g.store)
       ELSE Await(Call("linkintime", "token",
                       "https://in.mpms.mufg.com/Initial_Offer/IPO.aspx/generateToken",
                       Null, Null, Null, Null),
                  [NoLoc EXCEPT !.companyId = companyId, !.basis = g.basis], g.store)

\* checkLinkIntime up to its first outbound call
checkLinkIntime(store, req, now) ==
    LET Got(g) ==
            CASE g.k = "throw" -> Return(LinkIntimeError(g.val, NoBasis), g.store)
              [] g.k = "await" -> Await(MufgListingCall("linkintime"), g.loc, g.store)
              [] g.k = "value" -> checkLinkIntime_resolved(g, req)
    IN Got(getMufgCompanyId(store, "linkintime", req.ipoName, now))

\* checkLinkIntime from the response to the company list fetch
checkLinkIntime_listing(store, req, loc, resp, now) ==
    checkLinkIntime_resolved(
        getMufgCompanyId_fetched(store, "linkintime", req.ipoName, loc, resp, now), req)

\* token = tokenResponse.data.d || '', or '' when the token request fails
TokenOf(resp) ==
    IF resp.ok /\ ~IsGarbage(resp.data) THEN resp.data.d ELSE <<>>

\* checkLinkIntime from the response to the token request
checkLinkIntime_token(store, req, loc, resp) ==
    Await(Call("linkintime", "query",
               "https://in.mpms.mufg.com/Initial_Offer/IPO.aspx/SearchOnPan",
               loc.companyId, req.panNo, TokenOf(resp), Null),
          [loc EXCEPT !.token = TokenOf(resp)], store)

\* checkLinkIntime from the response to the search request
checkLinkIntime_response(store, req, loc, resp) ==
    IF ~resp.ok THEN Return(LinkIntimeError(ErrorMessage(resp.kind), loc.basis), store)
    ELSE Return(Result(TRUE, "linkintime", LinkIntimeStatus(resp.data), None,
                       IF loc.companyId # req.ipoName
                       THEN "Used company ID (via MUFG system)" ELSE "Using MUFG system",
                       LinkIntimeDetails(resp.data), loc.basis), store)

\* The allotment status checkMufg reads from the first <Table>
MufgClassify(allotted) ==
    LET Positive(n) == ~n.nan /\ n.val > 0
    IN IF allotted # <<>> /\ Positive(parseInt(allotted)) THEN "Allotted"
       ELSE IF allotted = <<"0">> \/ allotted = <<>> THEN "Not Allotted"
       ELSE "Pending"

\* The status checkMufg gives a parsed search response
MufgStatus(payload) ==
    IF IsGarbage(payload) \/ ~payload.hasD THEN "unknown"
    ELSE IF Len(payload.tables) > 0 THEN MufgClassify(payload.tables[1].ALLOT)
    ELSE IF payload.hasTable1
    THEN IF payload.msg # <<>> THEN "No Record Found" ELSE "unknown"
    ELSE "No Record Found"

MufgDetails(payload) ==
    IF ~IsGarbage(payload) /\ payload.hasD /\ Len(payload.tables) > 0
    THEN LET allotted == payload.tables[1].ALLOT
         IN [allotmentStatus |-> IF allotted = <<"0">> THEN STR_Not_Allotted
                                 ELSE allotted \o STR_shares_allotted,
             status |-> MufgClassify(allotted)]
    ELSE NoDetails

MufgError(msg, basis) ==
    Result(FALSE, "mufg", "error", msg, None, NoDetails, basis)

\* checkMufg from the company id on
checkMufg_resolved(g, req) ==
    LET companyId == IF g.val = Null /\ IsNumeric(req.ipoName) THEN req.ipoName
                     ELSE g.val
    IN IF companyId = Null
       THEN Return(MufgError("No company found for IPO name", g.basis), g.store)
       ELSE Await(Call("mufg", "token",
                       "https://in.mpms.mufg.com/Initial_Offer/IPO.aspx/generateToken",
                       Null, Null, Null, Null),
                  [NoLoc EXCEPT !.companyId = companyId, !.basis = g.basis], g.store)

\* checkMufg up to its first outbound call
checkMufg(store, req, now) ==
    LET Got(g) ==
            CASE g.k = "throw" -> Return(MufgError(g.val, NoBasis), g.store)
              [] g.k = "await" -> Await(MufgListingCall("mufg"), g.loc, g.store)
              [] g.k = "value" -> checkMufg_resolved(g, req)
    IN Got(getMufgCompanyId(store, "mufg", req.ipoName, now))

\* checkMufg from the response to the company list fetch
checkMufg_listing(store, req, loc, resp, now) ==
    checkMufg_resolved(
        getMufgCompanyId_fetched(store, "mufg", req.ipoName, loc, resp, now), req)

\* checkMufg giving up when the token request fails
checkMufg_token_aborts(store, req, loc, resp) ==
    IF ~resp.ok THEN Return(MufgError(ErrorMessage(resp.kind), loc.basis), store)
    ELSE Await(Call("mufg", "query",
                    "https://in.mpms.mufg.com/Initial_Offer/IPO.aspx/SearchOnPan",
                    loc.companyId, req.panNo, TokenOf(resp), Null),
               [loc EXCEPT !.token = TokenOf(resp)], store)

\* checkMufg from the response to the token request
checkMufg_token(store, req, loc, resp) ==
    Await(Call("mufg", "query",
               "https://in.mpms.mufg.com/Initial_Offer/IPO.aspx/SearchOnPan",
               loc.companyId, req.panNo, TokenOf(resp), Null),
          [loc EXCEPT !.token = TokenOf(resp)], store)

\* checkMufg from the response to the search request
checkMufg_response(store, req, loc, resp) ==
    IF ~resp.ok THEN Return(MufgError(ErrorMessage(resp.kind), loc.basis), store)
    ELSE Return(Result(TRUE, "mufg", MufgStatus(resp.data), None,
                       IF loc.companyId # req.ipoName THEN "Used company ID" ELSE None,
                       MufgDetails(resp.data), loc.basis), store)

\* ------------------------------------------------------------------------
\* getPurvaCompanyId and checkPurva
\* ------------------------------------------------------------------------

PurvaUrl == "https://www.purvashare.com/investor-service/ipo-query"

PurvaListingCall == Call("purva", "list", PurvaUrl, Null, Null, Null, Null)

\* getPurvaCompanyId up to its fetch: the cache check
getPurvaCompanyId(store, reg, ipoName, now) ==
    IF ~IsString(ipoName) THEN Raised("getPurvaCompanyId", reg, now, store)
    ELSE LET key    == cacheKey(ipoName)
             cached == EntryAt(store.purvaCompanyIdCache, key)
         IN IF CacheFresh(store.purvaCompanyIdCache, key, now)
            THEN Resolved("getPurvaCompanyId", reg, key,
                          [NoLoc EXCEPT !.rStart = now, !.rPrior = cached],
                          now, cached.id, [by |-> cached.by, failed |-> cached.failed],
                          cached, store)
            ELSE [k |-> "await", prior |-> cached, store |-> store]

\* The write gone to the cache of another resolver
PurvaCachePut_mufg(store, key, id, now, reg, failed) ==
    [store EXCEPT !.mufgCompanyIdCache =
        cleanupMufgCache(MapSet(@, [key |-> key, id |-> id, timestamp |-> now,
                                    by |-> reg, failed |-> failed]), now)]

\* purvaCompanyIdCache.set(cacheKey, { id, timestamp: Date.now() }); cleanupPurvaCache()
PurvaCachePut(store, key, id, now, reg, failed) ==
    [store EXCEPT !.purvaCompanyIdCache =
        cleanupPurvaCache(MapSet(@, [key |-> key, id |-> id, timestamp |-> now,
                                     by |-> reg, failed |-> failed]), now)]

\* getPurvaCompanyId from the response to the fetch of the query page
getPurvaCompanyId_fetched(store, reg, ipoName, loc, resp, now) ==
    LET key    == cacheKey(ipoName)
        prior  == loc.rPrior
        loc1   == [loc EXCEPT !.rFetches = @ + 1,
                              !.basis = [by |-> reg, failed |-> ~resp.ok]]
        Found(companyId) ==
            Resolved("getPurvaCompanyId", reg, key, loc1, now, companyId, loc1.basis,
                     prior, PurvaCachePut(store, key, companyId, now, reg, ~resp.ok))
    IN Found(IF resp.ok /\ ~IsGarbage(resp.data)
             THEN PurvaScanOptions(resp.data.options, ipoName) ELSE Null)

PurvaError(msg, basis) ==
    Result(FALSE, "purva", "error", msg, None, NoDetails, basis)

\* checkPurva up to its first outbound call: the GET of the page
checkPurva(store, req, now) ==
    Await(Call("purva", "page", PurvaUrl, Null, Null, Null, Null), NoLoc, store)

STR_78 == <<"7","8">>

\* checkPurva from the company id on: the form POST
checkPurva_post(store, req, loc, companyId, basis) ==
    Await(Call("purva", "query", PurvaUrl, companyId, req.panNo, loc.csrf, Null),
          [loc EXCEPT !.companyId = companyId, !.basis = basis], store)

\* if (scrapedCompanyId) companyId = scrapedCompanyId; else companyId = '78'
checkPurva_resolved(g, req, loc) ==
    checkPurva_post(g.store, req, loc, IF g.val # Null THEN g.val ELSE STR_78, g.basis)

\* checkPurva going on without the token of the page
checkPurva_page_anyToken(store, req, loc, resp, now) ==
    IF ~resp.ok THEN Return(PurvaError(ErrorMessage(resp.kind), NoBasis), store)
    ELSE LET csrfToken == IF IsGarbage(resp.data) THEN <<>> ELSE resp.data.csrf
             loc1      == [loc EXCEPT !.csrf = csrfToken]
         IN IF IsNumeric(req.ipoName)
            THEN checkPurva_post(store, req, loc1, req.ipoName, NoBasis)
            ELSE LET Got(g) ==
                         CASE g.k = "throw" -> Return(PurvaError(g.val, NoBasis), g.store)
                           [] g.k = "await" ->
                                Await(PurvaListingCall,
                                      [loc1 EXCEPT !.rStart = now, !.rPrior = g.prior],
                                      g.store)
                           [] g.k = "value" -> checkPurva_resolved(g, req, loc1)
                 IN Got(getPurvaCompanyId(store, "purva", req.ipoName, now))

\* checkPurva from the response to the GET of the page
checkPurva_page(store, req, loc, resp, now) ==
    IF ~resp.ok THEN Return(PurvaError(ErrorMessage(resp.kind), NoBasis), store)
    ELSE LET csrfToken == IF IsGarbage(resp.data) THEN <<>> ELSE resp.data.csrf
             loc1      == [loc EXCEPT !.csrf = csrfToken]
         IN IF csrfToken = <<>>
            THEN Return(PurvaError("Could not extract CSRF token from Purva website",
                                   NoBasis), store)
            ELSE IF IsNumeric(req.ipoName)
            THEN checkPurva_post(store, req, loc1, req.ipoName, NoBasis)
            ELSE LET Got(g) ==
                         CASE g.k = "throw" -> Return(PurvaError(g.val, NoBasis), g.store)
                           [] g.k = "await" ->
                                Await(PurvaListingCall,
                                      [loc1 EXCEPT !.rStart = now, !.rPrior = g.prior],
                                      g.store)
                           [] g.k = "value" -> checkPurva_resolved(g, req, loc1)
                 IN Got(getPurvaCompanyId(store, "purva", req.ipoName, now))

\* checkPurva from the response to its resolver's fetch
checkPurva_listing(store, req, loc, resp, now) ==
    checkPurva_resolved(
        getPurvaCompanyId_fetched(store, "purva", req.ipoName, loc, resp, now), req, loc)

\* sharesAllotted > 0 in a data row: at least six cells, the sixth parsed
PurvaRowAllotted(cells) ==
    LET Positive(sharesAllotted) == ~sharesAllotted.nan /\ sharesAllotted.val > 0
    IN Len(cells) >= 6 /\ Positive(parseInt(trim(cells[6])))

\* checkPurva looking at the first data row only
PurvaStatus_firstRow(payload) ==
    IF IsGarbage(payload) \/ ~payload.hasTable THEN "No Record Found"
    ELSE IF Len(payload.rows) <= 1 THEN "No Record Found"
    ELSE IF PurvaRowAllotted(payload.rows[2]) THEN "Allotted"
    ELSE "Not Allotted"

\* The status checkPurva reads from the first table of the response
PurvaStatus(payload) ==
    IF IsGarbage(payload) \/ ~payload.hasTable THEN "No Record Found"
    ELSE IF Len(payload.rows) <= 1 THEN "No Record Found"
    ELSE IF \E i \in 2..Len(payload.rows) : PurvaRowAllotted(payload.rows[i])
    THEN "Allotted"
    ELSE "Not Allotted"

\* checkPurva from the response to the form POST
checkPurva_response(store, req, loc, resp) ==
    IF ~resp.ok THEN Return(PurvaError(ErrorMessage(resp.kind), loc.basis), store)
    ELSE Return(Result(TRUE, "purva", PurvaStatus(resp.data), None, None, NoDetails,
                       loc.basis), store)

\* ------------------------------------------------------------------------
\* checkCameo
\* ------------------------------------------------------------------------

CameoEndpoints == << "https://ipostatus1.cameoindia.com/",
                     "https://ipostatus2.cameoindia.com/",
                     "https://ipostatus3.cameoindia.com/" >>

\* captchaStrategies, the fourth being the random six-digit number drawn
captchaStrategies(rand) == << <<"5","9","6","4","0","7">>, <<"1","2","3","4","5","6">>, <<"0","0","0","0","0","0">>, rand, <<>> >>

\* companies[text.toLowerCase()] = value over the options of drpCompany, in
\* the order the options come: a key met again keeps its place
RECURSIVE CameoCompanies(_)
CameoCompanies(options) ==
    IF options = <<>> THEN <<>>
    ELSE LET Put(rest, o, text, key) ==
                 IF o.value # <<>> /\ o.value # <<"0">> /\ text # <<>>
                 THEN IF \E i \in DOMAIN rest : rest[i].key = key
                      THEN [i \in DOMAIN rest |->
                               IF rest[i].key = key THEN [key |-> key, value |-> o.value]
                               ELSE rest[i]]
                      ELSE Append(rest, [key |-> key, value |-> o.value])
                 ELSE rest
             Option(rest, o) == Put(rest, o, trim(o.text), toLowerCase(trim(o.text)))
         IN Option(CameoCompanies(SubSeq(options, 1, Len(options) - 1)),
                   options[Len(options)])

\* A key that is a canonical array index: the keys of an object come with
\* these first, in ascending order, and then the others as inserted
IsIndexKey(k) == IsNumeric(k) /\ (k = <<"0">> \/ k[1] # "0")
RECURSIVE SortIndexKeys(_)
SortIndexKeys(es) ==
    IF es = <<>> THEN <<>>
    ELSE LET m == CHOOSE i \in DOMAIN es :
                     \A j \in DOMAIN es : DigitsValue(es[i].key) <= DigitsValue(es[j].key)
         IN << es[m] >> \o SortIndexKeys(KeepAt(es, DOMAIN es \ {m}))
ObjectEntries(companies) ==
    SortIndexKeys(SelectSeq(companies, LAMBDA e : IsIndexKey(e.key)))
        \o SelectSeq(companies, LAMBDA e : ~IsIndexKey(e.key))

\* Names every object inherits: companies[name] is truthy for these
STR_constructor == <<"c","o","n","s","t","r","u","c","t","o","r">>
STR_proto == <<"_","_","p","r","o","t","o","_","_">>
InheritedMember == <<"[","o","b","j","e","c","t"," ","O","b","j","e","c","t","]">>

CameoPartial(e, ipoNameLower) ==
    includes(e.key, ipoNameLower) \/ includes(ipoNameLower, e.key)

\* companyCode: the exact match, else the first partial match, else the
\* first company of the dropdown, else none
CameoCompanyCode(options, ipoName) ==
    LET Code(entries, ipoNameLower) ==
            IF \E i \in DOMAIN entries : entries[i].key = ipoNameLower
            THEN entries[CHOOSE i \in DOMAIN entries : entries[i].key = ipoNameLower].value
            ELSE IF ipoNameLower \in {STR_constructor, STR_proto} THEN InheritedMember
            ELSE IF \E i \in DOMAIN entries : CameoPartial(entries[i], ipoNameLower)
            THEN entries[CHOOSE i \in DOMAIN entries :
                            /\ CameoPartial(entries[i], ipoNameLower)
                            /\ \A j \in 1..(i - 1) :
                                   ~CameoPartial(entries[j], ipoNameLower)].value
            ELSE IF entries # <<>> THEN entries[1].value
            ELSE Null
    IN Code(ObjectEntries(CameoCompanies(options)), toLowerCase(ipoName))

STR_NO_DATA_FOUND == <<"N","O"," ","D","A","T","A"," ","F","O","U","N","D">>
STR_NO_RECORD_FOUND == <<"N","O"," ","R","E","C","O","R","D"," ","F","O","U","N","D">>
STR_no_data_found == <<"n","o"," ","d","a","t","a"," ","f","o","u","n","d">>
STR_no_record_found == <<"n","o"," ","r","e","c","o","r","d"," ","f","o","u","n","d">>
STR_allot_cameo == <<"a","l","l","o","t">>
STR_not == <<"n","o","t">>
CameoHeaders == { <<"H","O","L","D","_","I","D">>, <<"A","L","L","O","T","T","E","D","_","S","H","A","R","E","S">>, <<"R","E","F","U","N","D","_","A","M","O","U","N","T">>,
                  <<"R","E","F","U","N","D","_","M","O","D","E">>, <<"P","A","N","_","N","O">> }

\* The texts of the td cells of a row, trimmed
CameoCells(row) == IF row.th THEN <<>> ELSE [i \in DOMAIN row.cells |-> trim(row.cells[i])]

\* allotmentStatus after one data row, from what it was before
CameoRow(row, status) ==
    LET Cells(cellTexts) ==
            IF cellTexts = <<>> THEN status
            ELSE IF \E i \in DOMAIN cellTexts :
                       \/ includes(cellTexts[i], STR_NO_DATA_FOUND)
                       \/ includes(cellTexts[i], STR_NO_RECORD_FOUND)
            THEN "No Record Found"
            ELSE IF Len(cellTexts) >= 4 /\ cellTexts[1] # <<>>
            THEN IF cellTexts[2] # <<"0">> /\ cellTexts[2] # <<>>
                 THEN "Allotted" ELSE "Not Allotted"
            ELSE status
    IN Cells(CameoCells(row))

RECURSIVE CameoRows(_, _, _)
CameoRows(rows, i, status) ==
    IF i > Len(rows) THEN status
    ELSE CameoRows(rows, i + 1, CameoRow(rows[i], status))

\* allotmentStatus after one table
CameoTable(rows, status) ==
    IF rows = <<>> THEN status
    ELSE LET hasExpectedHeaders(headers) ==
                 \E i \in DOMAIN headers : \E h \in CameoHeaders : includes(headers[i], h)
             Headers(headers) ==
                 IF hasExpectedHeaders(headers) \/ Len(headers) >= 4
                 THEN CameoRows(rows, 2, status)
                 ELSE status
         IN Headers([i \in DOMAIN rows[1].cells |-> trim(rows[1].cells[i])])

RECURSIVE CameoTables(_, _, _)
CameoTables(tables, i, status) ==
    IF i > Len(tables) THEN status
    ELSE CameoTables(tables, i + 1, CameoTable(tables[i], status))

\* The status checkCameo reads from a response that asks for no captcha
CameoStatus(payload) ==
    IF IsGarbage(payload) THEN "No Record Found"
    ELSE LET Text(resultText, lower) ==
                 IF resultText # <<>>
                    /\ (includes(lower, STR_no_data_found)
                        \/ includes(lower, STR_no_record_found))
                 THEN "No Record Found"
                 ELSE IF resultText # <<>> /\ includes(lower, STR_allot_cameo)
                 THEN IF includes(resultText, STR_not) THEN "Not Allotted" ELSE "Allotted"
                 ELSE CameoTables(payload.tables, 1, "No Record Found")
         IN Text(trim(payload.resultText), toLowerCase(trim(payload.resultText)))

CameoError(status, msg) == Result(FALSE, "cameo", status, msg, None, NoDetails, NoBasis)

\* The endpoints loop beginning again at the first endpoint after the last
checkCameo_endpoint_again(store, req, e) ==
    LET Get(n) == Await(Call("cameo", "page", CameoEndpoints[n], Null, Null, Null, Null),
                        [NoLoc EXCEPT !.endpoint = n], store)
    IN Get(IF e > Len(CameoEndpoints) THEN 1 ELSE e)

\* The endpoints loop from endpoints[e] on
checkCameo_endpoint(store, req, e) ==
    IF e > Len(CameoEndpoints)
    THEN Return(CameoError("error", "All Cameo endpoints are unavailable"), store)
    ELSE Await(Call("cameo", "page", CameoEndpoints[e], Null, Null, Null, Null),
               [NoLoc EXCEPT !.endpoint = e], store)

\* checkCameo up to its first outbound call
checkCameo(store, req, now) == checkCameo_endpoint(store, req, 1)

\* checkCameo_response going on to the next captcha value after a response
\* that asks for no captcha
checkCameo_response_goesOn(store, req, loc, resp) ==
    IF loc.captcha < 5
    THEN Await(Call("cameo", "query", CameoEndpoints[loc.endpoint], loc.companyId,
                    req.panNo, Null, captchaStrategies(loc.rand)[loc.captcha + 1]),
               [loc EXCEPT !.captcha = @ + 1], store)
    ELSE Return(CameoError("captcha_required", "All captcha strategies failed."), store)

\* The captcha loop from captchaStrategies[c] on
checkCameo_submit(store, req, loc, c) ==
    IF c > Len(captchaStrategies(loc.rand))
    THEN Return(CameoError("captcha_required",
                           "All captcha strategies failed. Captcha verification is required for Cameo IPO allotment checking."),
                store)
    ELSE Await(Call("cameo", "query", CameoEndpoints[loc.endpoint], loc.companyId,
                    req.panNo, Null, captchaStrategies(loc.rand)[c]),
               [loc EXCEPT !.captcha = c], store)

\* checkCameo from the response to the GET of an endpoint
checkCameo_page(store, req, loc, resp, rand) ==
    IF ~resp.ok \/ IsGarbage(resp.data) THEN checkCameo_endpoint(store, req, loc.endpoint + 1)
    ELSE IF resp.data.viewState = <<>>
    THEN checkCameo_endpoint(store, req, loc.endpoint + 1)
    \* ipoName.toLowerCase is not a function: caught by the catch of the loop
    ELSE IF ~IsString(req.ipoName) THEN checkCameo_endpoint(store, req, loc.endpoint + 1)
    ELSE LET Code(companyCode) ==
                 IF companyCode = Null
                 THEN checkCameo_endpoint(store, req, loc.endpoint + 1)
                 ELSE checkCameo_submit(store, req,
                          [loc EXCEPT !.companyId = companyCode, !.rand = rand], 1)
         IN Code(CameoCompanyCode(resp.data.options, req.ipoName))

\* checkCameo from the response to a form submission
checkCameo_response(store, req, loc, resp) ==
    IF ~resp.ok THEN checkCameo_submit(store, req, loc, loc.captcha + 1)
    ELSE IF ~IsGarbage(resp.data) /\ resp.data.captchaScript
    THEN checkCameo_submit(store, req, loc, loc.captcha + 1)
    ELSE Return(Result(TRUE, "cameo", CameoStatus(resp.data), None,
                       "Used company code and captcha", NoDetails, NoBasis), store)

\* ------------------------------------------------------------------------
\* The dispatcher: registrarCheckers, checkRegistrar, checkAllRegistrars
\* ------------------------------------------------------------------------

\* registrarCheckers[r](req), up to the first outbound call of the checker
Checker(r, store, req, now) ==
    CASE r = "bigshare"   -> checkBigshare(store, req, now)
      [] r = "kfintech"   -> checkKfintech(store, req, now)
      [] r = "linkintime" -> checkLinkIntime(store, req, now)
      [] r = "skyline"    -> checkHtmlRegistrar("skyline", store, req, now)
      [] r = "cameo"      -> checkCameo(store, req, now)
      [] r = "mas"        -> checkHtmlRegistrar("mas", store, req, now)
      [] r = "maashitla"  -> checkHtmlRegistrar("maashitla", store, req, now)
      [] r = "beetal"     -> checkHtmlRegistrar("beetal", store, req, now)
      [] r = "purva"      -> checkPurva(store, req, now)
      [] r = "mufg"       -> checkMufg(store, req, now)

\* The checker suspended on `call`, resumed with the response to it
Resume(store, req, loc, call, resp, now, rand) ==
    LET r == call.registrar
        kind == call.kind
    IN CASE r = "bigshare" /\ kind = "list"    -> checkBigshare_listing(store, req, loc, resp, now)
         [] r = "bigshare" /\ kind = "query"   -> checkBigshare_response(store, req, loc, resp)
         [] r = "kfintech"                     -> checkKfintech_response(store, req, loc, resp)
         [] r = "linkintime" /\ kind = "list"  -> checkLinkIntime_listing(store, req, loc, resp, now)
         [] r = "linkintime" /\ kind = "token" -> checkLinkIntime_token(store, req, loc, resp)
         [] r = "linkintime" /\ kind = "query" -> checkLinkIntime_response(store, req, loc, resp)
         [] r = "mufg" /\ kind = "list"        -> checkMufg_listing(store, req, loc, resp, now)
         [] r = "mufg" /\ kind = "token"       -> checkMufg_token(store, req, loc, resp)
         [] r = "mufg" /\ kind = "query"       -> checkMufg_response(store, req, loc, resp)
         [] r = "purva" /\ kind = "page"       -> checkPurva_page(store, req, loc, resp, now)
         [] r = "purva" /\ kind = "list"       -> checkPurva_listing(store, req, loc, resp, now)
         [] r = "purva" /\ kind = "query"      -> checkPurva_response(store, req, loc, resp)
         [] r = "cameo" /\ kind = "page"       -> checkCameo_page(store, req, loc, resp, rand)
         [] r = "cameo" /\ kind = "query"      -> checkCameo_response(store, req, loc, resp)
         [] r \in {"skyline", "mas", "maashitla", "beetal"} ->
                checkHtmlRegistrar_response(r, store, req, loc, resp)

\* What a service method leaves when it next suspends or ends
NoRet == [k |-> "none"]
Suspended(idx, results, out) ==
    [pc |-> "running", idx |-> idx, results |-> results, calls |-> {out.call},
     loc |-> out.loc, store |-> out.store, ret |-> NoRet]
Ended(idx, results, ret, store) ==
    [pc |-> "done", idx |-> idx, results |-> results, calls |-> {},
     loc |-> NoLoc, store |-> store, ret |-> ret]

\* Names an object literal inherits from Object.prototype: registrarCheckers[name]
\* is truthy for each, though the table has no such entry
STR_toString == "toString"
PrototypeMembers == {"toString", "constructor", "valueOf", "hasOwnProperty", "__proto__"}

\* return await checker(request): what checkRegistrar comes to with its checker
checkRegistrar_awaited(out) ==
    CASE out.k = "await"  -> Suspended(0, <<>>, out)
      [] out.k = "return" -> Ended(0, <<>>, [k |-> "result", val |-> out.val], out.store)
      [] out.k = "throw"  -> Ended(0, <<>>, [k |-> "thrown", msg |-> out.val], out.store)

\* checkRegistrar(registrar, request) up to the first outbound call
checkRegistrar(registrar, store, req, now) ==
    IF registrar \in RegistrarType
    THEN checkRegistrar_awaited(Checker(registrar, store, req, now))
    \* Object.prototype.toString called with no receiver
    ELSE IF registrar = STR_toString
    THEN Ended(0, <<>>, [k |-> "value", val |-> "[object Undefined]"], store)
    \* Object(request)
    ELSE IF registrar = "constructor"
    THEN Ended(0, <<>>, [k |-> "value", val |-> "request"], store)
    \* a method that needs a receiver, or a member that is not a function
    ELSE IF registrar \in PrototypeMembers
    THEN Ended(0, <<>>, [k |-> "thrown", msg |-> TYPE_ERROR], store)
    ELSE Ended(0, <<>>, [k |-> "result",
                         val |-> Result(FALSE, registrar, "error", "Unknown registrar",
                                        None, NoDetails, NoBasis)], store)

\* checkRegistrar resumed with the response to its checker's call
checkRegistrar_resumed(store, req, loc, call, resp, now, rand) ==
    checkRegistrar_awaited(Resume(store, req, loc, call, resp, now, rand))

\* The loop of checkAllRegistrars from what the checker of RegistrarOrder[i]
\* came to: suspended, or returned (push), or threw (push an error result)
RECURSIVE checkAllRegistrars_loop(_, _, _, _, _)

\* The loop with a catch that logs the error and pushes nothing
checkAllRegistrars_loop_nopush(out, i, results, req, now) ==
    IF out.k = "await" THEN Suspended(i, results, out)
    ELSE LET pushed == IF out.k = "return" THEN Append(results, out.val) ELSE results
         IN IF i = Len(RegistrarOrder)
            THEN Ended(i, pushed, [k |-> "results"], out.store)
            ELSE checkAllRegistrars_loop(
                     Checker(RegistrarOrder[i + 1], out.store, req, now),
                     i + 1, pushed, req, now)

\* The loop without its await: the next checker is started while the
\* current one is still waiting for its response
checkAllRegistrars_loop_noawait(out, i, results, req, now) ==
    IF out.k = "await"
    THEN LET next == IF i < Len(RegistrarOrder)
                     THEN Checker(RegistrarOrder[i + 1], out.store, req, now)
                     ELSE out
         IN [Suspended(i, results, out) EXCEPT
                !.calls = @ \cup (IF next.k = "await" THEN {next.call} ELSE {})]
    ELSE LET pushed == Append(results,
                              IF out.k = "return" THEN out.val
                              ELSE Result(FALSE, RegistrarOrder[i], "error", out.val,
                                          None, NoDetails, NoBasis))
         IN IF i = Len(RegistrarOrder)
            THEN Ended(i, pushed, [k |-> "results"], out.store)
            ELSE checkAllRegistrars_loop(
                     Checker(RegistrarOrder[i + 1], out.store, req, now),
                     i + 1, pushed, req, now)

checkAllRegistrars_loop(out, i, results, req, now) ==
    IF out.k = "await" THEN Suspended(i, results, out)
    ELSE LET pushed == Append(results,
                              IF out.k = "return" THEN out.val
                              ELSE Result(FALSE, RegistrarOrder[i], "error", out.val,
                                          None, NoDetails, NoBasis))
         IN IF i = Len(RegistrarOrder)
            THEN Ended(i, pushed, [k |-> "results"], out.store)
            ELSE checkAllRegistrars_loop(
                     Checker(RegistrarOrder[i + 1], out.store, req, now),
                     i + 1, pushed, req, now)

\* checkAllRegistrars(request) up to the first outbound call
checkAllRegistrars(store, req, now) ==
    checkAllRegistrars_loop(Checker(RegistrarOrder[1], store, req, now), 1, <<>>, req, now)

\* checkAllRegistrars resumed with the response to the current checker's call
checkAllRegistrars_resumed(store, req, i, results, loc, call, resp, now, rand) ==
    checkAllRegistrars_loop(Resume(store, req, loc, call, resp, now, rand),
                            i, results, req, now)

\* ------------------------------------------------------------------------
\* Inputs: requests, and what the registrar sites may answer
\* ------------------------------------------------------------------------

PAN == <<"A","B","C","D","E","1","2","3","4","F">>
NAME_AB == <<"A","b"," ">>
NAME_XY == <<"x","y">>
NAME_42 == <<"4","2">>
AB_LTD == <<"A","b"," ","L","t","d">>

\* Request bodies the controller lets through: it tests only !ipoName
Requests ==
    { [panNo |-> PAN, ipoName |-> n] : n \in {NAME_AB, NAME_XY, NAME_42, NonString} }
BatchRequests == Requests

\* First arguments of checkRegistrar: the ten of the table, and others
Identifiers == RegistrarType \cup {"nsdl", "toString", "constructor", "__proto__"}

\* The random captcha values drawn
RandomCaptchas == { <<"1","0","0","0","0","0">>, <<"5","9","6","4","0","7">> }

AbOption == [text |-> AB_LTD, value |-> NAME_42]
BigsharePage ==
    << [id |-> DDL_COMPANY, name |-> DDL_COMPANY,
        options |-> << [text |-> <<"-","-","S","e","l","e","c","t"," ","C","o","m","p","a","n","y","-","-">>, value |-> <<"0">>], AbOption >>] >>
BigshareListing(selects) == [type |-> "page", selects |-> selects]
BigshareRecord(alloted) ==
    [type |-> "json", hasD |-> TRUE,
     d |-> [APPLICATION_NO |-> "A1", DPID |-> "D1", ALLOTED |-> alloted]]
MufgList ==
    [type |-> "json", hasD |-> TRUE,
     tables |-> << [companyname |-> AB_LTD, company_id |-> NAME_42] >>]
MufgSearch(tables, hasTable1, msg) ==
    [type |-> "json", hasD |-> TRUE, tables |-> tables, hasTable1 |-> hasTable1,
     msg |-> msg]
PurvaPage(csrf) == [type |-> "page", csrf |-> csrf, options |-> << AbOption >>]
PurvaTable(rows) == [type |-> "html", hasTable |-> TRUE, rows |-> rows]
PurvaHeader == << <<>> >>
PurvaDataRow(shares) == << <<"N">>, <<"1">>, PAN, <<"D">>, <<"5">>, shares, <<"0">> >>
CameoPage(viewState) == [type |-> "page", viewState |-> viewState, options |-> << AbOption >>]
CameoAnswer(captchaScript, rows, resultText) ==
    [type |-> "html", captchaScript |-> captchaScript,
     tables |-> IF rows = <<>> THEN <<>> ELSE << rows >>, resultText |-> resultText]
CameoHeaderRow == [th |-> TRUE, cells |-> << <<"H","O","L","D","_","I","D">>, <<"A","L","L","O","T","T","E","D","_","S","H","A","R","E","S">> >>]
CameoDataRow(shares) == [th |-> FALSE, cells |-> << <<"H","1">>, shares, <<"0">>, <<"N","E","F","T">>, PAN >>]
KfintechPayload(status, hasAllotted, allotted, error) ==
    [type |-> "json", status |-> status, hasData |-> FALSE,
     data |-> [hasAllotted |-> FALSE, allotted |-> 0, status |-> "none"],
     hasAllotted |-> hasAllotted, allotted |-> allotted, error |-> error]

Failures == { Fail("timeout"), Fail("http404") }

\* What a site may answer to a call of a single-registrar request
Answers(call) ==
    LET r == call.registrar
        kind == call.kind
    IN Failures \cup
       (CASE r = "bigshare" /\ kind = "list" -> { Ok(BigshareListing(BigsharePage)), Ok(BigshareListing(<<>>)), Ok(Garbage) }
          [] r = "bigshare" /\ kind = "query" ->
               { Ok(BigshareRecord(<<"A","L","L","O","T","E","D">>)), Ok(BigshareRecord(<<"N","O","N","-","A","L","L","O","T","T","E">>)),
                 Ok(BigshareRecord(NotAString)), Ok(Garbage),
                 Ok([type |-> "json", hasD |-> TRUE,
                     d |-> [APPLICATION_NO |-> "", DPID |-> "No data found",
                            ALLOTED |-> <<>>]]) }
          [] r = "kfintech" ->
               { Fail("network"), Fail("http500"),
                 Ok(KfintechPayload("success", TRUE, 5, Null)),
                 Ok(KfintechPayload("success", TRUE, 0, Null)),
                 Ok(KfintechPayload("failed", FALSE, 0, NotAString)),
                 Ok(Garbage) }
          [] r \in {"linkintime", "mufg"} /\ kind = "list" ->
               { Ok(MufgList), Ok([type |-> "json", hasD |-> FALSE, tables |-> <<>>]),
                 Ok(Garbage) }
          [] r \in {"linkintime", "mufg"} /\ kind = "token" ->
               { Ok([type |-> "json", d |-> <<"t","k">>]), Ok(Garbage) }
          [] r \in {"linkintime", "mufg"} /\ kind = "query" ->
               { Ok(MufgSearch(<< [ALLOT |-> <<"1","0">>] >>, FALSE, <<>>)),
                 Ok(MufgSearch(<< [ALLOT |-> <<"0">>] >>, FALSE, <<>>)),
                 Ok(MufgSearch(<< [ALLOT |-> <<"N","A">>] >>, FALSE, <<>>)),
                 Ok(MufgSearch(<<>>, TRUE, <<"N","o"," ","r","e","c","o","r","d">>)),
                 Ok(Garbage) }
          [] r = "purva" /\ kind = "page" -> { Ok(PurvaPage(<<"t","o","k">>)), Ok(PurvaPage(<<>>)) }
          [] r = "purva" /\ kind = "list" -> { Ok(PurvaPage(<<"t","o","k">>)), Ok(Garbage) }
          [] r = "purva" /\ kind = "query" ->
               { Ok(PurvaTable(PurvaHeader)),
                 Ok(PurvaTable(PurvaHeader \o << PurvaDataRow(<<"0">>), PurvaDataRow(<<"7">>) >>)),
                 Ok(PurvaTable(PurvaHeader \o << PurvaDataRow(<<"0">>) >>)),
                 Ok(Garbage) }
          [] r = "cameo" /\ kind = "page" ->
               { Ok(CameoPage(<<"v","s">>)), Ok(CameoPage(<<>>)) }
          [] r = "cameo" /\ kind = "query" ->
               { Ok(CameoAnswer(TRUE, <<>>, <<>>)),
                 Ok(CameoAnswer(FALSE, << CameoHeaderRow, CameoDataRow(<<"7">>) >>, <<>>)),
                 Ok(CameoAnswer(FALSE, << CameoHeaderRow, CameoDataRow(<<"0">>) >>, <<>>)),
                 Ok(CameoAnswer(FALSE, <<>>, <<"N","O"," ","D","A","T","A"," ","F","O","U","N","D">>)) }
          [] r \in {"skyline", "mas", "maashitla", "beetal"} -> { Ok(Garbage) })

\* What a site may answer to a call of a batch: one payload, or a timeout
BatchAnswers(call) ==
    LET r == call.registrar
        kind == call.kind
    IN { Fail("timeout") } \cup
       (CASE r = "bigshare" /\ kind = "list"  -> { Ok(BigshareListing(BigsharePage)) }
          [] r = "bigshare" /\ kind = "query" -> { Ok(BigshareRecord(<<"A","L","L","O","T","E","D">>)) }
          [] r = "kfintech" -> { Ok(KfintechPayload("success", TRUE, 5, Null)) }
          [] r \in {"linkintime", "mufg"} /\ kind = "list"  -> { Ok(MufgList) }
          [] r \in {"linkintime", "mufg"} /\ kind = "token" -> { Ok([type |-> "json", d |-> <<"t","k">>]) }
          [] r \in {"linkintime", "mufg"} /\ kind = "query" ->
               { Ok(MufgSearch(<< [ALLOT |-> <<"1","0">>] >>, FALSE, <<>>)) }
          [] r = "purva" /\ kind \in {"page", "list"} -> { Ok(PurvaPage(<<"t","o","k">>)) }
          [] r = "purva" /\ kind = "query" ->
               { Ok(PurvaTable(PurvaHeader \o << PurvaDataRow(<<"7">>) >>)) }
          [] r = "cameo" /\ kind = "page" -> { Ok(CameoPage(<<"v","s">>)) }
          [] r = "cameo" /\ kind = "query" ->
               { Ok(CameoAnswer(FALSE, << CameoHeaderRow, CameoDataRow(<<"7">>) >>, <<>>)) }
          [] r \in {"skyline", "mas", "maashitla", "beetal"} -> { Ok(Garbage) })

\* ------------------------------------------------------------------------
\* The state and the steps
\* ------------------------------------------------------------------------

\* clock: Date.now().  The three caches of the module.  proc: the service
\* call each request handler is in.  net: the outbound calls awaiting their
\* response.  resolves: the last two resolver calls that ended (a record of
\* the past, kept for the properties).
VARIABLES clock, bigshareCompanyIdCache, mufgCompanyIdCache, purvaCompanyIdCache,
          proc, net, resolves

caches == << bigshareCompanyIdCache, mufgCompanyIdCache, purvaCompanyIdCache >>
vars == << clock, bigshareCompanyIdCache, mufgCompanyIdCache, purvaCompanyIdCache,
           proc, net, resolves >>

\* Request handlers that may run
Procs == {"p1"}

\* How many requests a handler serves; how many days the clock spans
MaxRequests == 1
MaxResolves == 2
MaxBatches == 1
MaxDays == 1

\* The instants the clock is read at: each whole day after the start, and
\* the millisecond after it
Instants == { k * CACHE_DURATION + e : k \in 0..MaxDays, e \in {0, 1} }

Store ==
    [bigshareCompanyIdCache |-> bigshareCompanyIdCache,
     mufgCompanyIdCache |-> mufgCompanyIdCache,
     purvaCompanyIdCache |-> purvaCompanyIdCache,
     resolves |-> resolves]

\* Three fields of proc[p] record the past for the properties.  Of a batch:
\* failed, the calls that failed at transport level, and start, the caches
\* it started from.  Of any request: queryFailed, whether an allotment query
\* of it failed at transport level in a way its checker has no special case
\* for.
NoStore ==
    [bigshareCompanyIdCache |-> <<>>, mufgCompanyIdCache |-> <<>>,
     purvaCompanyIdCache |-> <<>>, resolves |-> <<>>]

Idle(served) ==
    [op |-> "idle", registrar |-> None, req |-> [panNo |-> Null, ipoName |-> Null],
     pc |-> "idle", idx |-> 0, results |-> <<>>, loc |-> NoLoc, ret |-> NoRet,
     served |-> served, failed |-> {}, queryFailed |-> FALSE, start |-> NoStore]

Init ==
    /\ clock = 0
    /\ bigshareCompanyIdCache = <<>>
    /\ mufgCompanyIdCache = <<>>
    /\ purvaCompanyIdCache = <<>>
    /\ proc = [p \in Procs |-> Idle(0)]
    /\ net = [p \in Procs |-> {}]
    /\ resolves = <<>>

\* The state after handler p ran a service method up to its next suspension
Step(p, op, registrar, req, o, failed, queryFailed, start) ==
    /\ proc' = [proc EXCEPT ![p] =
                   [op |-> op, registrar |-> registrar, req |-> req, pc |-> o.pc,
                    idx |-> o.idx, results |-> o.results, loc |-> o.loc,
                    ret |-> o.ret, served |-> @.served, failed |-> failed,
                    queryFailed |-> queryFailed, start |-> start]]
    /\ net' = [net EXCEPT ![p] = o.calls]
    /\ bigshareCompanyIdCache' = o.store.bigshareCompanyIdCache
    /\ mufgCompanyIdCache' = o.store.mufgCompanyIdCache
    /\ purvaCompanyIdCache' = o.store.purvaCompanyIdCache
    /\ resolves' = o.store.resolves
    /\ UNCHANGED clock

\* POST /check with a registrar: IPOAllotmentService.checkRegistrar
StartOne(p) ==
    /\ proc[p].pc = "idle"
    /\ proc[p].served < MaxRequests
    /\ \E registrar \in Identifiers, req \in Requests :
          Step(p, "one", registrar, req, checkRegistrar(registrar, Store, req, clock),
               {}, FALSE, NoStore)

\* The same for the registrars that resolve a company id
Resolving == {"bigshare", "linkintime", "purva", "mufg"}
StartResolving(p) ==
    /\ proc[p].pc = "idle"
    /\ proc[p].served < MaxResolves
    /\ \E registrar \in Resolving, req \in Requests :
          Step(p, "one", registrar, req, checkRegistrar(registrar, Store, req, clock),
               {}, FALSE, NoStore)

\* POST /check without a registrar: IPOAllotmentService.checkAllRegistrars
StartAll(p) ==
    /\ proc[p].pc = "idle"
    /\ proc[p].served < MaxBatches
    /\ \E req \in BatchRequests :
          Step(p, "all", None, req, checkAllRegistrars(Store, req, clock), {}, FALSE, Store)

\* The calls of the request of p that failed, after `resp` answers `call`
FailedWith(p, call, resp) ==
    IF resp.ok THEN proc[p].failed
    ELSE proc[p].failed \cup { [call |-> call, kind |-> resp.kind] }

\* The one non-2xx status a checker has a special case for: Kfintech's 404
HandledSpecially(call, resp) == call.registrar = "kfintech" /\ resp.kind = "http404"
QueryFailedWith(p, call, resp) ==
    \/ proc[p].queryFailed
    \/ ~resp.ok /\ call.kind = "query" /\ ~HandledSpecially(call, resp)

BatchDraw == <<"1","0","0","0","0","0">>

\* Math.random is read only after the GET of a Cameo endpoint
Draws(call) ==
    IF call.registrar = "cameo" /\ call.kind = "page" THEN RandomCaptchas
    ELSE { <<"1","0","0","0","0","0">> }

\* The response to the outbound call of a single-registrar request arrives
RespondOne(p) ==
    /\ proc[p].pc = "running"
    /\ proc[p].op = "one"
    /\ \E call \in net[p] : \E resp \in Answers(call), rand \in Draws(call) :
          Step(p, "one", proc[p].registrar, proc[p].req,
               checkRegistrar_resumed(Store, proc[p].req, proc[p].loc, call, resp,
                                      clock, rand),
               {}, QueryFailedWith(p, call, resp), NoStore)

\* The response to the outbound call of a batch arrives
RespondAll(p) ==
    /\ proc[p].pc = "running"
    /\ proc[p].op = "all"
    /\ \E call \in net[p] : \E resp \in BatchAnswers(call) :
          Step(p, "all", None, proc[p].req,
               checkAllRegistrars_resumed(Store, proc[p].req, proc[p].idx,
                                          proc[p].results, proc[p].loc, call, resp,
                                          clock, BatchDraw),
               FailedWith(p, call, resp), QueryFailedWith(p, call, resp),
               proc[p].start)

\* The controller sends what the service method gave and the handler ends
Finish(p) ==
    /\ proc[p].pc = "done"
    /\ proc' = [proc EXCEPT ![p] = Idle(@.served + 1)]
    /\ UNCHANGED << clock, caches, net, resolves >>

\* Time passes
Tick ==
    /\ \E t \in Instants : t > clock /\ clock' = t
    /\ UNCHANGED << caches, proc, net, resolves >>

\* A flush of the BigShare cache that empties the MUFG cache with it
clearBigshareCache_all ==
    /\ bigshareCompanyIdCache # <<>>
    /\ bigshareCompanyIdCache' = <<>>
    /\ mufgCompanyIdCache' = <<>>
    /\ resolves' = SelectSeq(resolves, LAMBDA rec : rec.fn # "getBigshareCompanyId")
    /\ UNCHANGED << clock, purvaCompanyIdCache, proc, net >>

\* IPOAllotmentService.clearBigshareCache and the like.  The record of the
\* resolver calls keeps only the calls whose entries are not thereby dropped.
clearBigshareCache ==
    /\ bigshareCompanyIdCache # <<>>
    /\ bigshareCompanyIdCache' = <<>>
    /\ resolves' = SelectSeq(resolves, LAMBDA rec : rec.fn # "getBigshareCompanyId")
    /\ UNCHANGED << clock, mufgCompanyIdCache, purvaCompanyIdCache, proc, net >>
clearMufgCache ==
    /\ mufgCompanyIdCache # <<>>
    /\ mufgCompanyIdCache' = <<>>
    /\ resolves' = SelectSeq(resolves, LAMBDA rec : rec.fn # "getMufgCompanyId")
    /\ UNCHANGED << clock, bigshareCompanyIdCache, purvaCompanyIdCache, proc, net >>
clearPurvaCache ==
    /\ purvaCompanyIdCache # <<>>
    /\ purvaCompanyIdCache' = <<>>
    /\ resolves' = SelectSeq(resolves, LAMBDA rec : rec.fn # "getPurvaCompanyId")
    /\ UNCHANGED << clock, bigshareCompanyIdCache, mufgCompanyIdCache, proc, net >>

\* IPOAllotmentService.cleanupBigshareCache and the like
cleanupBigshareCache ==
    /\ bigshareCompanyIdCache' = cleanupCache(bigshareCompanyIdCache, clock)
    /\ bigshareCompanyIdCache' # bigshareCompanyIdCache
    /\ UNCHANGED << clock, mufgCompanyIdCache, purvaCompanyIdCache, proc, net, resolves >>
cleanupMufgCacheCall ==
    /\ mufgCompanyIdCache' = cleanupMufgCache(mufgCompanyIdCache, clock)
    /\ mufgCompanyIdCache' # mufgCompanyIdCache
    /\ UNCHANGED << clock, bigshareCompanyIdCache, purvaCompanyIdCache, proc, net, resolves >>
cleanupPurvaCacheCall ==
    /\ purvaCompanyIdCache' = cleanupPurvaCache(purvaCompanyIdCache, clock)
    /\ purvaCompanyIdCache' # purvaCompanyIdCache
    /\ UNCHANGED << clock, bigshareCompanyIdCache, mufgCompanyIdCache, proc, net, resolves >>

\* Single-registrar requests, one after the other, with the cache operations
Next ==
    \/ \E p \in Procs : StartOne(p)
    \/ \E p \in Procs : RespondOne(p)
    \/ \E p \in Procs : Finish(p)
    \/ Tick
    \/ clearBigshareCache
    \/ clearMufgCache
    \/ clearPurvaCache
    \/ cleanupBigshareCache
    \/ cleanupMufgCacheCall
    \/ cleanupPurvaCacheCall

Spec == Init /\ [][Next]_vars

\* A batch: checkAllRegistrars, all of it within one reading of the clock
NextAll ==
    \/ \E p \in Procs : StartAll(p)
    \/ \E p \in Procs : RespondAll(p)
    \/ \E p \in Procs : Finish(p)

SpecAll == Init /\ [][NextAll]_vars

\* ------------------------------------------------------------------------
\* Caches at capacity
\* ------------------------------------------------------------------------

DigitChars == << "0", "1", "2", "3", "4", "5", "6", "7", "8", "9" >>
RECURSIVE Decimal(_)
Decimal(n) ==
    IF n < 10 THEN << DigitChars[n + 1] >>
    ELSE Append(Decimal(n \div 10), DigitChars[(n % 10) + 1])

\* A cache as earlier resolves leave it: n names, each resolved to nothing,
\* the i-th written at stamp[i]
Filled(n, reg, stamp(_)) ==
    [i \in 1..n |-> [key |-> << "#" >> \o Decimal(i), id |-> Null,
                     timestamp |-> stamp(i), by |-> reg, failed |-> FALSE]]

\* When the entries were written: all at once; the later half later; all but
\* one in the middle (a name resolved again keeps its place in the Map); all
\* just now
Patterns == {"same", "halves", "middle", "now"}
StampOf(pattern, n, i) ==
    CASE pattern = "same"   -> 0
      [] pattern = "now"    -> 1
      [] pattern = "halves" -> IF 2 * i <= n THEN 0 ELSE 1
      [] pattern = "middle" -> IF 2 * i = n - (n % 2) THEN 0 ELSE 1

FillSizes == {MAX_CACHE_SIZE - 1, MAX_CACHE_SIZE}

InitCap ==
    /\ clock = 1
    /\ \E n \in FillSizes, pattern \in Patterns, which \in {"bigshare", "mufg", "purva"} :
          LET stamp(i) == StampOf(pattern, n, i)
          IN /\ bigshareCompanyIdCache =
                   IF which = "bigshare" THEN Filled(n, "bigshare", stamp) ELSE <<>>
             /\ mufgCompanyIdCache =
                   IF which = "mufg" THEN Filled(n, "mufg", stamp) ELSE <<>>
             /\ purvaCompanyIdCache =
                   IF which = "purva" THEN Filled(n, "purva", stamp) ELSE <<>>
    /\ proc = [p \in Procs |-> Idle(MaxResolves - 1)]
    /\ net = [p \in Procs |-> {}]
    /\ resolves = <<>>

NextCap ==
    \/ \E p \in Procs : StartResolving(p)
    \/ \E p \in Procs : RespondOne(p)
    \/ \E p \in Procs : Finish(p)
    \/ Tick

SpecCap == InitCap /\ [][NextCap]_vars

\* Requests to the resolving registrars, one after the other
NextResolve ==
    \/ \E p \in Procs : StartResolving(p)
    \/ \E p \in Procs : RespondOne(p)
    \/ \E p \in Procs : Finish(p)
    \/ Tick
    \/ clearBigshareCache
    \/ clearMufgCache
    \/ clearPurvaCache
    \/ cleanupBigshareCache
    \/ cleanupMufgCacheCall
    \/ cleanupPurvaCacheCall

SpecResolve == Init /\ [][NextResolve]_vars

\* ------------------------------------------------------------------------
\* Properties of checkAllRegistrars
\* ------------------------------------------------------------------------

\* C1: checkAllRegistrars returns a list of exactly ten results, the i-th
\* carrying the i-th registrar of the checker table, whatever subset of the
\* checkers returned a failure result or threw.
C1_TenResultsInTableOrder ==
    \A p \in Procs :
        (proc[p].op = "all" /\ proc[p].pc = "done") =>
            /\ proc[p].ret.k = "results"
            /\ Len(proc[p].results) = 10
            /\ \A i \in 1..10 : proc[p].results[i].registrar = RegistrarOrder[i]

\* A batch has ended in which checkBigshare threw, the Kfintech checker
\* succeeded and the Skyline and MUFG checkers returned failure results
C1_Witness ==
    \E p \in Procs :
        /\ proc[p].op = "all" /\ proc[p].pc = "done"
        /\ ~proc[p].results[1].success /\ proc[p].results[1].error = TYPE_ERROR
        /\ proc[p].results[2].success
        /\ ~proc[p].results[4].success
        /\ ~proc[p].results[10].success

\* C2: during one checkAllRegistrars at most one outbound call is awaited,
\* it is a call of the checker the loop is at, and every registrar before
\* that one has its result in the list: its checker has returned or thrown.
C2_OneCheckerInFlight ==
    \A p \in Procs :
        proc[p].op = "all" =>
            /\ Cardinality(net[p]) <= 1
            /\ \A c \in net[p] :
                  /\ proc[p].idx \in 1..10
                  /\ c.registrar = RegistrarOrder[proc[p].idx]
                  /\ Len(proc[p].results) = proc[p].idx - 1

\* The MUFG checker, the tenth, awaits its search while nine results are in
C2_Witness ==
    \E p \in Procs :
        /\ proc[p].op = "all"
        /\ \E c \in net[p] : c.registrar = "mufg" /\ c.kind = "query"
        /\ Len(proc[p].results) = 9

\* What the caller sees of a result
Visible(r) ==
    [success |-> r.success, registrar |-> r.registrar, status |-> r.status,
     error |-> r.error, details |-> r.details, allotmentDetails |-> r.allotmentDetails]

\* The answer of a site that is up
BatchOk(call) == CHOOSE a \in BatchAnswers(call) : a.ok

\* The list a batch returns when exactly the calls of `failing` time out:
\* the batch continued from o
RECURSIVE BatchRun(_, _, _, _)
BatchRun(o, req, now, failing) ==
    IF o.pc = "done" THEN o.results
    ELSE LET call == CHOOSE c \in o.calls : TRUE
         IN BatchRun(checkAllRegistrars_resumed(
                         o.store, req, o.idx, o.results, o.loc, call,
                         IF call \in failing THEN Fail("timeout") ELSE BatchOk(call),
                         now, BatchDraw),
                     req, now, failing)

\* C3: in checkAllRegistrars a transport failure of one call changes only the
\* entry of the registrar whose checker made the call: the run in which the
\* call fails and the run that differs from it only in that call being
\* answered return the same entry for every other registrar.
C3_FailureChangesOwnEntryOnly ==
    \A p \in Procs :
        (proc[p].op = "all" /\ proc[p].pc = "done") =>
            LET failing == { f.call : f \in proc[p].failed }
            IN \A c \in failing :
                  LET other == BatchRun(checkAllRegistrars(proc[p].start, proc[p].req, clock),
                                        proc[p].req, clock, failing \ {c})
                  IN \A i \in 1..10 :
                        RegistrarOrder[i] # c.registrar =>
                            Visible(proc[p].results[i]) = Visible(other[i])

\* ------------------------------------------------------------------------
\* Properties of checkRegistrar and the checkers
\* ------------------------------------------------------------------------

\* The status the checkers give a failure: 'error', and 'Error' in checkKfintech
ErrorStatus == {"error", "Error"}

\* C4: no registrar checker throws to its caller, and when an allotment query
\* of the checker failed at transport level (a timeout, or a non-2xx status
\* the checker has no special case for) the checker returns a result with
\* success=false and the status Error.
C4_CheckerNeverThrowsQueryFailureIsError ==
    \A p \in Procs :
        (proc[p].op = "one" /\ proc[p].registrar \in RegistrarType
         /\ proc[p].pc = "done") =>
            /\ proc[p].ret.k = "result"
            /\ proc[p].queryFailed =>
                  /\ ~proc[p].ret.val.success
                  /\ proc[p].ret.val.status \in ErrorStatus

\* C5: checkRegistrar called with an identifier that has no entry in the
\* checker table returns at once a result with success=false and status
\* Error that names the registrar, with no outbound call made and the three
\* caches as they were.
C5_UnknownRegistrarIsErrorResult ==
    [][\A p \in Procs :
          (proc[p].pc = "idle" /\ proc'[p].op = "one"
           /\ proc'[p].registrar \notin RegistrarType) =>
              /\ proc'[p].pc = "done"
              /\ proc'[p].ret.k = "result"
              /\ ~proc'[p].ret.val.success
              /\ proc'[p].ret.val.status \in ErrorStatus
              /\ proc'[p].ret.val.registrar = proc'[p].registrar
              /\ proc'[p].ret.val.error = "Unknown registrar"
              /\ net'[p] = {}
              /\ caches' = caches]_vars

\* ------------------------------------------------------------------------
\* Properties of the resolvers and their caches
\* ------------------------------------------------------------------------

\* The cache a resolver keeps
CacheIn(fn, store) ==
    CASE fn = "getBigshareCompanyId" -> store.bigshareCompanyIdCache
      [] fn = "getMufgCompanyId"     -> store.mufgCompanyIdCache
      [] fn = "getPurvaCompanyId"    -> store.purvaCompanyIdCache
CacheOf(fn) == CacheIn(fn, Store)

\* The listing URLs a resolver fetches from, one after the other
ListingUrls(fn) == IF fn = "getBigshareCompanyId" THEN Len(BigshareUrls) ELSE 1

\* The last two resolver calls were for the same registrar and name, the
\* second starting when the first had ended and less than 24 hours later
SamePairTwice ==
    /\ Len(resolves) = 2
    /\ resolves[1].fn = resolves[2].fn
    /\ resolves[1].reg = resolves[2].reg
    /\ resolves[1].key = resolves[2].key
    /\ resolves[2].start >= resolves[1].end
    /\ resolves[2].start - resolves[1].end < CACHE_DURATION

C7_ExpiredEntryIsFetchedAfresh ==
    [][(proc' # proc /\ resolves' # resolves) =>
          LET rec   == resolves'[Len(resolves')]
              cache == CacheIn(rec.fn, Store')
          IN (rec.prior.timestamp >= 0
              /\ rec.start - rec.prior.timestamp > CACHE_DURATION) =>
                 /\ rec.fetches >= 1
                 /\ MapHas(cache, rec.key)
                 /\ MapGet(cache, rec.key).id = rec.ret
                 /\ MapGet(cache, rec.key).timestamp = rec.end
                 /\ MapGet(cache, rec.key).timestamp > rec.prior.timestamp]_vars

\* A resolve found an entry more than 24 hours old and its own entry is there
C7_Witness ==
    \E i \in DOMAIN resolves :
        /\ resolves[i].prior.timestamp >= 0
        /\ resolves[i].start - resolves[i].prior.timestamp > CACHE_DURATION
        /\ resolves[i].fetches >= 1
        /\ MapHas(CacheOf(resolves[i].fn), resolves[i].key)
        /\ MapGet(CacheOf(resolves[i].fn), resolves[i].key).timestamp = resolves[i].end

\* A resolver call that fetched ends in this step, for a name with no entry
\* in its cache C, which holds MAX_CACHE_SIZE entries none of which has
\* expired: its write brings the cache to MAX_CACHE_SIZE + 1
WriteAtCapacity(rec, C, now) ==
    /\ rec.fetches >= 1
    /\ Len(C) = MAX_CACHE_SIZE
    /\ \A i \in DOMAIN C : ~(now - C[i].timestamp > CACHE_DURATION)
    /\ ~MapHas(C, rec.key)

\* D is C with the new entry at its end and without one entry, one of the
\* least timestamp in C
EvictsOldest(rec, C, D) ==
    LET j == CHOOSE j \in 1..MAX_CACHE_SIZE : D[j] # C[j]
    IN /\ Len(D) = MAX_CACHE_SIZE
       /\ D[MAX_CACHE_SIZE].key = rec.key
       /\ D[MAX_CACHE_SIZE].id = rec.ret
       /\ D[MAX_CACHE_SIZE].timestamp = rec.end
       /\ \A i \in 1..(j - 1) : D[i] = C[i]
       /\ \A i \in j..(MAX_CACHE_SIZE - 1) : D[i] = C[i + 1]
       /\ \A i \in 1..MAX_CACHE_SIZE : C[j].timestamp <= C[i].timestamp

\* C8: each cache holds at most 1000 entries whenever a request can observe
\* it; and a write that brings a cache of 1000 unexpired entries to 1001
\* removes exactly one entry, one with the oldest timestamp, and never the
\* entry just written.
C8_AtMostThousandOldestEvicted ==
    /\ [](/\ Len(bigshareCompanyIdCache) <= MAX_CACHE_SIZE
          /\ Len(mufgCompanyIdCache) <= MAX_CACHE_SIZE
          /\ Len(purvaCompanyIdCache) <= MAX_CACHE_SIZE)
    /\ [][(proc' # proc /\ resolves' # resolves) =>
             LET rec == resolves'[Len(resolves')]
             IN WriteAtCapacity(rec, CacheIn(rec.fn, Store), clock) =>
                    EvictsOldest(rec, CacheIn(rec.fn, Store), CacheIn(rec.fn, Store'))]_vars

\* A cache of 1000 entries written at the same time has lost the first of
\* them to a name resolved since, whose entry is the last
C8_Witness ==
    \E fn \in {"getBigshareCompanyId", "getMufgCompanyId", "getPurvaCompanyId"} :
        /\ Len(CacheOf(fn)) = MAX_CACHE_SIZE
        /\ CacheOf(fn)[1].key = << "#", "2" >>
        /\ CacheOf(fn)[MAX_CACHE_SIZE].key[1] # "#"
        /\ CacheOf(fn)[MAX_CACHE_SIZE].timestamp = CacheOf(fn)[1].timestamp

\* C9: a resolver never raises; when no candidate matched or every listing
\* fetch failed it returns null and stores null under the normalized name,
\* and the next resolve of that name within 24 hours returns null without
\* any fetch.
C9_ResolverNeverRaisesNullIsCached ==
    /\ \A i \in DOMAIN resolves : ~resolves[i].raised
    /\ (SamePairTwice /\ resolves[1].fetches >= 1 /\ resolves[1].ret = Null) =>
           /\ resolves[2].fetches = 0
           /\ resolves[2].ret = Null

\* The registrars whose checkers resolve through the same resolver
Sharing(registrar) ==
    IF registrar \in {"linkintime", "mufg"} THEN {"linkintime", "mufg"}
    ELSE {registrar}

\* The entries of cache m were written for the registrars of `group`
WrittenFor(m, group) == \A i \in DOMAIN m : m[i].by \in group

\* C10, as stated: a resolution on behalf of one registrar never reads an
\* entry that a resolution on behalf of a different registrar wrote.
C10_NoEntryOfAnotherRegistrarRead ==
    \A i \in DOMAIN resolves : resolves[i].prior.by \in {None, resolves[i].reg}

\* C10, amended: the caches are not shared between registrars, except that
\* linkintime and mufg resolve through the one MUFG cache.  A resolution on
\* behalf of a registrar reads only entries written for it or for the
\* registrar it shares its resolver with; each cache holds only entries
\* written for its own registrars; and a step of a request for a registrar
\* changes (writes, evicts from) no cache but that registrar's.
C10_CachesSharedOnlyByLinkIntimeAndMufg ==
    /\ [](/\ \A i \in DOMAIN resolves :
                resolves[i].prior.by \in {None} \cup Sharing(resolves[i].reg)
          /\ WrittenFor(bigshareCompanyIdCache, {"bigshare"})
          /\ WrittenFor(mufgCompanyIdCache, {"linkintime", "mufg"})
          /\ WrittenFor(purvaCompanyIdCache, {"purva"}))
    /\ [][\A p \in Procs :
             (proc'[p] # proc[p] /\ proc'[p].op = "one") =>
                 /\ proc'[p].registrar # "bigshare" =>
                        bigshareCompanyIdCache' = bigshareCompanyIdCache
                 /\ proc'[p].registrar \notin {"linkintime", "mufg"} =>
                        mufgCompanyIdCache' = mufgCompanyIdCache
                 /\ proc'[p].registrar # "purva" =>
                        purvaCompanyIdCache' = purvaCompanyIdCache]_vars

\* The MUFG checker was answered, without a fetch, from the entry the Link
\* Intime checker wrote
C10_Witness ==
    \E i \in DOMAIN resolves :
        /\ resolves[i].reg = "mufg"
        /\ resolves[i].prior.by = "linkintime"
        /\ resolves[i].fetches = 0

\* ------------------------------------------------------------------------
\* Properties of the results
\* ------------------------------------------------------------------------

\* The status strings of the code that stand for the seven kinds of status:
\* Allotted, NotAllotted, NoRecordFound, Pending, CaptchaRequired, Error
\* ('error', and 'Error' in checkKfintech) and Unknown
StatusKind ==
    {"Allotted", "Not Allotted", "No Record Found", "Pending", "captcha_required",
     "error", "Error", "unknown"}

\* The results a request of p has returned so far: the result of an ended
\* checkRegistrar for one of the ten registrars, the elements of the list
\* of checkAllRegistrars
ResultsOf(p) ==
    IF proc[p].op = "all" THEN { proc[p].results[i] : i \in 1..Len(proc[p].results) }
    ELSE IF proc[p].op = "one" /\ proc[p].pc = "done" /\ proc[p].ret.k = "result"
            /\ proc[p].registrar \in RegistrarType
    THEN { proc[p].ret.val }
    ELSE {}

\* C11: every result checkRegistrar returns for one of the ten registrars,
\* and every element of the list checkAllRegistrars returns, has a status
\* that is one of the seven kinds Allotted, NotAllotted, NoRecordFound,
\* Pending, CaptchaRequired, Error, Unknown, whatever the upstream answers.
C11_StatusIsOfTheClosedSet ==
    \A p \in Procs : \A r \in ResultsOf(p) : r.status \in StatusKind

\* C12: in every result a checker or the dispatcher returns, error is
\* populated only when success is false: a result with success=true has no
\* error field.
C12_ErrorOnlyWhenNotSuccess ==
    \A p \in Procs :
        /\ \A i \in 1..Len(proc[p].results) :
              proc[p].results[i].success => proc[p].results[i].error = None
        /\ (proc[p].pc = "done" /\ proc[p].ret.k = "result") =>
              (proc[p].ret.val.success => proc[p].ret.val.error = None)

\* checkKfintech caught a 404 and returned a success: the result has the
\* details text and no error
C12_Witness ==
    \E p \in Procs :
        /\ proc[p].op = "one" /\ proc[p].pc = "done" /\ proc[p].ret.k = "result"
        /\ proc[p].registrar = "kfintech"
        /\ proc[p].ret.val.success
        /\ proc[p].ret.val.status = "No Record Found"
        /\ proc[p].ret.val.details # None
        /\ proc[p].ret.val.error = None

\* ------------------------------------------------------------------------
\* The controller: checkAllotmentStatus
\* ------------------------------------------------------------------------

\* A regular expression ^ t1 t2 ... $ whose terms are a character class
\* repeated between min and max times: does it match s from term i on
RECURSIVE RegexMatch(_, _, _)
RegexMatch(regex, i, s) ==
    IF i > Len(regex) THEN s = <<>>
    ELSE \E n \in regex[i].min..regex[i].max :
            /\ n <= Len(s)
            /\ \A j \in 1..n : s[j] \in regex[i].class
            /\ RegexMatch(regex, i + 1, SubSeq(s, n + 1, Len(s)))

\* RegExp.prototype.test
test(regex, s) == RegexMatch(regex, 1, s)

\* /^[A-Z]{5}[0-9]{4}[A-Z]?$/ of checkAllotmentWithIPONinja
panRegexIPONinja ==
    << [class |-> Range(UPPER), min |-> 5, max |-> 5],
       [class |-> DIGITS, min |-> 4, max |-> 4],
       [class |-> Range(UPPER), min |-> 0, max |-> 1] >>

\* The pattern of checkAllotmentStatus with its last letter optional
panRegex_optionalLetter ==
    << [class |-> Range(UPPER), min |-> 5, max |-> 5],
       [class |-> DIGITS, min |-> 4, max |-> 4],
       [class |-> Range(UPPER), min |-> 0, max |-> 1] >>

\* /^[A-Z]{5}[0-9]{4}[A-Z]{1}$/ of checkAllotmentStatus
panRegex ==
    << [class |-> Range(UPPER), min |-> 5, max |-> 5],
       [class |-> DIGITS, min |-> 4, max |-> 4],
       [class |-> Range(UPPER), min |-> 1, max |-> 1] >>

\* The registrars checkAllotmentStatus admits, without mufg
validRegistrars_short ==
    << "bigshare", "kfintech", "linkintime", "skyline", "cameo", "mas",
       "maashitla", "beetal", "purva" >>

\* validRegistrars of checkAllotmentStatus
validRegistrars ==
    << "bigshare", "kfintech", "linkintime", "skyline", "cameo", "mas",
       "maashitla", "beetal", "purva", "mufg" >>

\* !v of a field of the body that is a string when it is there: undefined
\* and the empty string are falsy
Falsy(v) == v = Null \/ v = <<>>

\* if (registrar): undefined and the empty string are falsy
RegistrarGiven(registrar) == registrar # None /\ registrar # ""

\* res.status(status).json({ success: false, error })
Rejected(status, error) == [k |-> "response", status |-> status, error |-> error]

\* Values of panNo in a body
PAN_9 == <<"A","B","C","D","E","1","2","3","4">>
PAN_lower == <<"a","b","c","d","e","1","2","3","4","f">>
PAN_lower9 == <<"A","B","C","D","e","1","2","3","4">>
PAN_lowerLast == <<"A","B","C","D","E","1","2","3","4","f">>
PAN_digitLast == <<"A","B","C","D","E","1","2","3","4","5">>
PAN_4letters == <<"A","B","C","D","1","2","3","4","F">>
PAN_11 == <<"A","B","C","D","E","1","2","3","4","F","G">>
PAN_5digits == <<"A","B","C","D","E","1","2","3","4","5","F">>
PAN_newline == <<"A","B","C","D","E","1","2","3","4","F","\n">>
PanInputs ==
    { PAN, PAN_9, PAN_lower, PAN_lower9, PAN_lowerLast, PAN_digitLast, PAN_4letters,
      PAN_11, PAN_5digits, PAN_newline }

\* Bodies of POST /check-allotment: each field may be missing (undefined) or
\* the empty string; registrar may be a name that is none of the ten
Bodies ==
    { [panNo |-> a, ipoName |-> n, registrar |-> r] :
         a \in PanInputs \cup {Null, <<>>},
         n \in {NAME_AB, NAME_XY, NAME_42, NonString, Null, <<>>},
         r \in RegistrarType \cup {None, "", "nsdl", "toString"} }

\* checkAllotmentStatus up to the first outbound call of the service method
\* it calls, or to the response it sends without calling one.  A request
\* answered at once keeps its body in req and registrar.
checkAllotmentStatus(p) ==
    /\ proc[p].pc = "idle"
    /\ proc[p].served < MaxRequests
    /\ \E body \in Bodies :
          LET req == [panNo |-> body.panNo, ipoName |-> body.ipoName]
              reject(error) ==
                  Step(p, "rejected", body.registrar, req,
                       Ended(0, <<>>, Rejected(400, error), Store), {}, FALSE, NoStore)
          IN IF Falsy(body.panNo) \/ Falsy(body.ipoName)
             THEN reject("Missing required fields")
             ELSE IF ~test(panRegex, body.panNo)
             THEN reject("Invalid PAN format")
             ELSE IF RegistrarGiven(body.registrar)
             THEN IF body.registrar \notin Range(validRegistrars)
                  THEN reject("Invalid registrar")
                  ELSE Step(p, "one", body.registrar, req,
                            checkRegistrar(body.registrar, Store, req, clock),
                            {}, FALSE, NoStore)
             ELSE Step(p, "all", body.registrar, req,
                       checkAllRegistrars(Store, req, clock), {}, FALSE, Store)

\* ------------------------------------------------------------------------
\* The controller: checkAllotmentWithIPONinja
\* ------------------------------------------------------------------------

\* req.body.pancard: one value, or an array of values
One(pan) == [array |-> FALSE, items |-> << pan >>]
Array(pans) == [array |-> TRUE, items |-> pans]

\* !pancard: an array is truthy, also the empty one
PancardFalsy(pancard) == ~pancard.array /\ Falsy(pancard.items[1])

\* Array.isArray(pancard) ? pancard : [pancard]
pancardsOf(pancard) == pancard.items

\* Bodies of POST /check-ipoallotment: the fields the handler reads, ipoid
\* and pancard, and the fields panNo and ipoName of API_DOCUMENTATION.md
NinjaBodies ==
    { [ipoid |-> i, pancard |-> c, panNo |-> a, ipoName |-> n] :
         i \in {NAME_42, Null},
         c \in { One(v) : v \in PanInputs \cup {Null, <<>>} }
               \cup { Array(<<>>) }
               \cup { Array(<< v >>) : v \in {PAN, PAN_9, PAN_lower} }
               \cup { Array(<< v, w >>) : v, w \in {PAN, PAN_9, PAN_lower} },
         a \in {PAN, Null},
         n \in {NAME_AB, Null} }

\* res.status(400).json({ ..., invalidPan: pan })
RejectedPan(status, error, pan) ==
    [k |-> "response", status |-> status, error |-> error, invalidPan |-> pan]

\* res.json({ success: true, data: results, ... })
Answered == [k |-> "response", status |-> 200, error |-> None]

\* The loop over pancards from index idx: it awaits the POST for that PAN,
\* or past the last one answers with the results
checkAllotmentWithIPONinja_loop(body, idx, results, store) ==
    IF idx > Len(pancardsOf(body.pancard))
    THEN Ended(idx, results, Answered, store)
    ELSE Suspended(idx, results,
                   Await(Call("iponinja", "query",
                              "https://iponinjaapi.matalia.co.in/api/v1/IpoBids/fetchliveallotment",
                              body.ipoid, pancardsOf(body.pancard)[idx], Null, Null),
                         NoLoc, store))

\* checkAllotmentWithIPONinja testing the first PAN only before it calls
checkAllotmentWithIPONinja_firstOnly(p) ==
    /\ proc[p].pc = "idle"
    /\ proc[p].served < MaxRequests
    /\ \E body \in NinjaBodies :
          LET pancards == pancardsOf(body.pancard)
              answer(ret) ==
                  Step(p, "ninja", None, body, Ended(0, <<>>, ret, Store), {}, FALSE, NoStore)
          IN IF Falsy(body.ipoid) \/ PancardFalsy(body.pancard)
             THEN answer(Rejected(400, "Missing required fields"))
             ELSE IF pancards # <<>> /\ ~test(panRegexIPONinja, pancards[1])
             THEN answer(RejectedPan(400, "Invalid PAN format", pancards[1]))
             ELSE Step(p, "ninja", None, body,
                       checkAllotmentWithIPONinja_loop(body, 1, <<>>, Store),
                       {}, FALSE, NoStore)

\* checkAllotmentWithIPONinja up to its first outbound call, or to the
\* response it sends without one
checkAllotmentWithIPONinja(p) ==
    /\ proc[p].pc = "idle"
    /\ proc[p].served < MaxRequests
    /\ \E body \in NinjaBodies :
          LET invalid == SelectSeq(pancardsOf(body.pancard),
                                   LAMBDA pan : ~test(panRegexIPONinja, pan))
              answer(ret) ==
                  Step(p, "ninja", None, body, Ended(0, <<>>, ret, Store), {}, FALSE, NoStore)
          IN IF Falsy(body.ipoid) \/ PancardFalsy(body.pancard)
             THEN answer(Rejected(400, "Missing required fields"))
             ELSE IF invalid # <<>>
             THEN answer(RejectedPan(400, "Invalid PAN format", invalid[1]))
             ELSE Step(p, "ninja", None, body,
                       checkAllotmentWithIPONinja_loop(body, 1, <<>>, Store),
                       {}, FALSE, NoStore)

\* What the IPONinja API may answer
NinjaAnswers == { Ok([type |-> "json", status |-> "allotted"]), Fail("timeout") }

\* The response to the POST of checkAllotmentWithIPONinja arrives: the PAN
\* gets its entry, and the loop goes on
RespondNinja(p) ==
    /\ proc[p].pc = "running"
    /\ proc[p].op = "ninja"
    /\ \E call \in net[p] : \E resp \in NinjaAnswers :
          LET entry == IF resp.ok
                       THEN [pancard |-> call.pan, data |-> resp.data, error |-> None]
                       ELSE [pancard |-> call.pan, data |-> Garbage,
                             error |-> ErrorMessage(resp.kind)]
          IN Step(p, "ninja", None, proc[p].req,
                  checkAllotmentWithIPONinja_loop(proc[p].req, proc[p].idx + 1,
                                                  Append(proc[p].results, entry), Store),
                  {}, FALSE, NoStore)

\* Requests to POST /check-allotment and POST /check-ipoallotment, one after
\* the other
NextController ==
    \/ \E p \in Procs : checkAllotmentStatus(p)
    \/ \E p \in Procs : RespondOne(p)
    \/ \E p \in Procs : RespondAll(p)
    \/ \E p \in Procs : checkAllotmentWithIPONinja(p)
    \/ \E p \in Procs : RespondNinja(p)
    \/ \E p \in Procs : Finish(p)

SpecController == Init /\ [][NextController]_vars

\* Five uppercase letters, four digits and one uppercase letter
StrictPanShape(s) ==
    /\ Len(s) = 10
    /\ \A i \in 1..5 : s[i] \in Range(UPPER)
    /\ \A i \in 6..9 : s[i] \in DIGITS
    /\ s[10] \in Range(UPPER)

\* What a request to POST /check-allotment is doing: one checker, all of
\* them, or answered without either
CheckAllotmentOps == {"one", "all", "rejected"}

\* The body a request of p arrived with is one the validation is to refuse:
\* panNo or ipoName missing, panNo not of the strict shape, or a registrar
\* in the body that is none of the ten
InvalidBody(req, registrar) ==
    \/ req.panNo = Null
    \/ req.ipoName = Null
    \/ ~StrictPanShape(req.panNo)
    \/ registrar # None /\ registrar \notin RegistrarType

\* C13: checkAllotmentStatus invokes no checker and causes no outbound call
\* when panNo or ipoName is missing, when panNo fails the strict PAN pattern,
\* or when registrar is given but is not one of the ten registrars; in each
\* of these cases it answers 400.
C13_InvalidBodyIsRefusedWithoutCall ==
    [][\A p \in Procs :
          (proc[p].pc = "idle" /\ proc'[p].op \in CheckAllotmentOps
           /\ InvalidBody(proc'[p].req, proc'[p].registrar)) =>
              /\ proc'[p].pc = "done"
              /\ proc'[p].ret.k = "response"
              /\ proc'[p].ret.status = 400
              /\ proc'[p].results = <<>>
              /\ net'[p] = {}
              /\ caches' = caches]_vars

\* The body a request of p arrived with passes the checks on panNo and ipoName
ValidFields(req) ==
    /\ req.panNo # Null /\ StrictPanShape(req.panNo)
    /\ req.ipoName # Null /\ req.ipoName # <<>>

\* C14: with panNo and ipoName valid, checkAllotmentStatus takes the
\* single-registrar path when registrar is one of the ten (only the checker
\* of that registrar runs: every outbound call of the request is a call of
\* that checker, and no list of results is built), and the all-registrars
\* path when registrar is omitted; a request never changes from one path to
\* the other.
C14_OnePathPerRequest ==
    /\ [][\A p \in Procs :
             /\ (proc[p].pc = "idle" /\ proc'[p].op \in CheckAllotmentOps
                 /\ ValidFields(proc'[p].req)) =>
                   /\ proc'[p].registrar \in RegistrarType => proc'[p].op = "one"
                   /\ proc'[p].registrar = None => proc'[p].op = "all"
             /\ proc[p].pc = "running" => proc'[p].op = proc[p].op]_vars
    /\ [](\A p \in Procs :
             /\ proc[p].op = "one" =>
                   /\ proc[p].results = <<>>
                   /\ \A c \in net[p] : c.registrar = proc[p].registrar
             /\ proc[p].op = "all" =>
                   \A c \in net[p] : c.registrar = RegistrarOrder[proc[p].idx])

\* A request that names mufg awaits the allotment query of checkMufg
C14_Witness ==
    \E p \in Procs :
        /\ proc[p].op = "one" /\ proc[p].registrar = "mufg"
        /\ proc[p].pc = "running"
        /\ \E c \in net[p] : c.kind = "query"

\* Five uppercase letters and four digits, with or without an uppercase
\* letter after them
RelaxedPanShape(s) ==
    \/ StrictPanShape(s)
    \/ /\ Len(s) = 9
       /\ \A i \in 1..5 : s[i] \in Range(UPPER)
       /\ \A i \in 6..9 : s[i] \in DIGITS

HasLowercase(s) == \E i \in DOMAIN s : s[i] \in Range(LOWER)

\* The request was answered 400 'Invalid PAN format'
PanRefused(ret) == ret.k = "response" /\ ret.status = 400 /\ ret.error = "Invalid PAN format"

\* C15: the PAN check of checkAllotmentStatus passes exactly the strings of
\* five uppercase letters, four digits and one uppercase letter; the check
\* of checkAllotmentWithIPONinja passes those and the same strings without
\* the last letter, and no others; a string with a lowercase letter fails
\* both.
C15_StrictAndRelaxedPanCheck ==
    [][\A p \in Procs :
          /\ (proc[p].pc = "idle" /\ proc'[p].op \in CheckAllotmentOps
              /\ ~Falsy(proc'[p].req.panNo) /\ ~Falsy(proc'[p].req.ipoName)) =>
                 /\ PanRefused(proc'[p].ret) <=> ~StrictPanShape(proc'[p].req.panNo)
                 /\ HasLowercase(proc'[p].req.panNo) => PanRefused(proc'[p].ret)
          /\ (proc[p].pc = "idle" /\ proc'[p].op = "ninja"
              /\ ~Falsy(proc'[p].req.ipoid) /\ ~PancardFalsy(proc'[p].req.pancard)) =>
                 LET pancards == pancardsOf(proc'[p].req.pancard)
                 IN /\ PanRefused(proc'[p].ret) <=>
                          \E i \in DOMAIN pancards : ~RelaxedPanShape(pancards[i])
                    /\ (\E i \in DOMAIN pancards : HasLowercase(pancards[i])) =>
                          PanRefused(proc'[p].ret)]_vars

\* checkAllotmentWithIPONinja let a PAN without the last letter through and
\* awaits the answer to its query
C15_Witness ==
    \E p \in Procs :
        /\ proc[p].op = "ninja" /\ proc[p].pc = "running"
        /\ proc[p].req.pancard = One(PAN_9)
        /\ \E c \in net[p] : c.pan = PAN_9

\* The body of API_DOCUMENTATION.md: panNo, a valid PAN, and ipoName, and
\* no other field
DocumentedBody(req) ==
    /\ req.panNo # Null /\ StrictPanShape(req.panNo)
    /\ ~Falsy(req.ipoName)
    /\ req.ipoid = Null
    /\ req.pancard = One(Null)

\* C17: a POST to /api/ipos/check-ipoallotment whose body has the documented
\* shape, panNo (a valid PAN) and ipoName, is accepted, so that the query
\* for the allotment is sent; it is not answered 400.
C17_DocumentedBodyIsAccepted ==
    [][\A p \in Procs :
          (proc[p].pc = "idle" /\ proc'[p].op = "ninja" /\ DocumentedBody(proc'[p].req)) =>
              /\ proc'[p].pc = "running"
              /\ net'[p] # {}
              /\ proc'[p].ret.k # "response"]_vars

\* ------------------------------------------------------------------------
\* Properties of what the checkers keep
\* ------------------------------------------------------------------------

\* The request of p awaits the response to its allotment query
AwaitsQuery(p) == proc[p].pc = "running" /\ \E c \in net[p] : c.kind = "query"

\* C16: allotment results are never served from a cache.  A checkRegistrar
\* call returns a result with success=true only in the step that takes the
\* response to an allotment query of this same call, also when the company
\* id was read from the cache because the same request completed just
\* before; and a checker keeps nothing but resolved identifiers: the step
\* that takes the response to the allotment query leaves the three caches as
\* they are, and a step of a request changes a cache only when a resolver
\* call that fetched ends in it, leaving under its key what it returns.
C16_ResultsAreNeverCached ==
    [][\A p \in Procs :
          /\ (proc'[p] # proc[p] /\ proc'[p].pc = "done" /\ proc'[p].ret.k = "result"
              /\ proc'[p].ret.val.success) => AwaitsQuery(p)
          /\ (proc'[p] # proc[p] /\ AwaitsQuery(p)) => caches' = caches
          /\ (proc'[p] # proc[p] /\ caches' # caches) =>
                /\ resolves' # resolves
                /\ LET rec == resolves'[Len(resolves')]
                   IN /\ rec.fetches >= 1
                      /\ MapHas(CacheIn(rec.fn, Store'), rec.key)
                      /\ MapGet(CacheIn(rec.fn, Store'), rec.key).id = rec.ret]_vars

\* The same name was resolved for Bigshare twice, the second time from the
\* cache with an identifier in it, and the second request awaits its own
\* allotment query
C16_Witness ==
    \E p \in Procs :
        /\ SamePairTwice
        /\ resolves[1].reg = "bigshare"
        /\ resolves[2].fetches = 0
        /\ resolves[2].ret # Null
        /\ proc[p].registrar = "bigshare"
        /\ AwaitsQuery(p)

\* ------------------------------------------------------------------------
\* The status a checker reads from the response to its allotment query
\* ------------------------------------------------------------------------

\* Values of ALLOTED in a BigShare application record
AllotedTexts ==
    { <<"A","L","L","O","T","E","D">>, <<"A","l","l","o","t","t","e","d"," ","5","0"," ","s","h","a","r","e","s">>, <<"N","O","N","-","A","L","L","O","T","T","E">>, <<"N","o","n"," ","A","l","l","o","t","t","e","d">>,
      <<"N","o","t"," ","A","l","l","o","t","t","e","d">>, <<"N","O","T"," ","A","L","L","O","T","E","D">>, <<"P","e","n","d","i","n","g">>, <<>> }

\* Values of <ALLOT> in the first <Table> of a MUFG search response
AllotTexts == { <<"1","0">>, <<"0","0","7">>, <<"0">>, <<"0","0">>, <<>>, <<"N","A">>, <<"-","3">> }

\* Values of the sixth cell of a data row of the Purva table
SharesTexts == { <<"0">>, <<"5","0">>, <<" ","7"," ">>, <<>>, <<"N","A">> }

\* A data row of the Purva table that ends before the sixth cell
PurvaShortRow == << <<"N">>, <<"1">>, PAN, <<"D">>, <<"5","0">> >>

\* The data rows of the table in a Cameo response: none, one, or two in
\* either order
CameoDataRows ==
    { <<>> } \cup { << CameoDataRow(t) >> : t \in { <<"7">>, <<"0">>, <<>> } }
    \cup { << CameoDataRow(t), CameoDataRow(u) >> : t, u \in { <<"7">>, <<"0">> } }

\* What the sites answer in a run that looks at the classification: the
\* listing, page and token calls are answered as the sites do when they are
\* up, the allotment query with each of the payloads
ClassifyAnswers(call) ==
    LET r == call.registrar
        kind == call.kind
    IN CASE r = "bigshare" /\ kind = "query" ->
              { Ok(BigshareRecord(t)) : t \in AllotedTexts } \cup
              { Ok([type |-> "json", hasD |-> TRUE,
                    d |-> [APPLICATION_NO |-> "", DPID |-> "D1", ALLOTED |-> <<"A","L","L","O","T","E","D">>]]),
                Ok([type |-> "json", hasD |-> TRUE,
                    d |-> [APPLICATION_NO |-> "A1", DPID |-> "No data found",
                           ALLOTED |-> <<>>]]) }
         [] r = "bigshare" /\ kind = "list" ->
              { Ok(BigshareListing(BigsharePage)), Ok(BigshareListing(<<>>)), Fail("timeout") }
         [] r \in {"linkintime", "mufg"} /\ kind = "query" ->
              { Ok(MufgSearch(<< [ALLOT |-> t] >>, FALSE, <<>>)) : t \in AllotTexts } \cup
              { Ok(MufgSearch(<< [ALLOT |-> <<"0">>], [ALLOT |-> <<"1","0">>] >>, FALSE, <<>>)),
                Ok(MufgSearch(<<>>, TRUE, <<"N","o"," ","r","e","c","o","r","d">>)),
                Ok(MufgSearch(<<>>, TRUE, <<>>)),
                Ok(MufgSearch(<<>>, FALSE, <<>>)) }
         [] r = "purva" /\ kind = "query" ->
              { Ok(PurvaTable(PurvaHeader \o << PurvaDataRow(t) >>)) : t \in SharesTexts } \cup
              { Ok(PurvaTable(PurvaHeader \o << PurvaDataRow(t), PurvaDataRow(u) >>)) :
                   t, u \in {<<"0">>, <<"5","0">>} } \cup
              { Ok(PurvaTable(PurvaHeader \o << PurvaShortRow >>)),
                Ok(PurvaTable(PurvaHeader)),
                Ok(PurvaTable(<<>>)),
                Ok([type |-> "html", hasTable |-> FALSE, rows |-> <<>>]) }
         [] r \in {"linkintime", "mufg"} /\ kind = "token" ->
              { Ok([type |-> "json", d |-> <<"t","k">>]), Fail("timeout"), Fail("http500") }
         [] r = "purva" /\ kind = "page" ->
              { Ok(PurvaPage(<<"t","o","k">>)), Ok(PurvaPage(<<>>)), Ok(Garbage), Fail("timeout") }
         [] r = "kfintech" -> Answers(call)
         [] r = "cameo" /\ kind = "page" ->
              { Ok(CameoPage(<<"v","s">>)), Ok(CameoPage(<<>>)),
                Ok([CameoPage(<<"v","s">>) EXCEPT !.options = <<>>]), Fail("timeout") }
         [] r = "cameo" /\ kind = "query" ->
              { Ok(CameoAnswer(FALSE, << CameoHeaderRow >> \o rows, <<>>)) :
                   rows \in CameoDataRows } \cup
              { Ok(CameoAnswer(TRUE, <<>>, <<>>)), Fail("timeout") }
         [] OTHER -> { a \in BatchAnswers(call) : a.ok }

\* The registrars whose checkers read a status from the response
Classifying == {"bigshare", "kfintech", "linkintime", "mufg", "purva", "cameo"}

\* No call answered yet
NoCall == Call("none", "none", "", Null, Null, Null, Null)
NoAnswer == [ok |-> FALSE, kind |-> "none"]

\* The state after handler p ran checkRegistrar up to its next suspension.
\* taken is not a field of the program: it records the call answered last
\* and the response to it.  failed records the calls that failed so far.
StepTaking(p, registrar, req, o, call, resp) ==
    /\ proc' = [proc EXCEPT ![p] =
                   [op |-> "one", registrar |-> registrar, req |-> req, pc |-> o.pc,
                    idx |-> o.idx, results |-> o.results, loc |-> o.loc,
                    ret |-> o.ret, served |-> @.served,
                    failed |-> IF call.kind = "none" THEN {} ELSE FailedWith(p, call, resp),
                    queryFailed |-> FALSE, start |-> NoStore,
                    taken |-> [call |-> call, resp |-> resp]]]
    /\ net' = [net EXCEPT ![p] = o.calls]
    /\ bigshareCompanyIdCache' = o.store.bigshareCompanyIdCache
    /\ mufgCompanyIdCache' = o.store.mufgCompanyIdCache
    /\ purvaCompanyIdCache' = o.store.purvaCompanyIdCache
    /\ resolves' = o.store.resolves
    /\ UNCHANGED clock

\* IPOAllotmentService.checkRegistrar for a registrar that classifies
StartClassifying(p) ==
    /\ proc[p].pc = "idle"
    /\ proc[p].served < MaxRequests
    /\ \E registrar \in Classifying, ipoName \in {NAME_AB, NAME_XY, NAME_42, NonString} :
          /\ ~IsString(ipoName) => registrar = "cameo"
          /\ LET req == [panNo |-> PAN, ipoName |-> ipoName]
             IN StepTaking(p, registrar, req, checkRegistrar(registrar, Store, req, clock),
                           NoCall, NoAnswer)

\* The response to the outbound call of the request arrives
RespondClassifying(p) ==
    /\ proc[p].pc = "running"
    /\ \E call \in net[p] : \E resp \in ClassifyAnswers(call) :
          StepTaking(p, proc[p].registrar, proc[p].req,
                     checkRegistrar_resumed(Store, proc[p].req, proc[p].loc, call, resp,
                                            clock, BatchDraw),
                     call, resp)

NextClassify ==
    \/ \E p \in Procs : StartClassifying(p)
    \/ \E p \in Procs : RespondClassifying(p)
    \/ \E p \in Procs : Finish(p)

SpecClassify == Init /\ [][NextClassify]_vars

\* The request of p for `registrars` has ended with the response to its
\* allotment query taken
Classified(p, registrars) ==
    /\ proc[p].pc = "done"
    /\ proc[p].registrar \in registrars
    /\ proc[p].taken.call.kind = "query"
    /\ proc[p].taken.resp.ok
    /\ proc[p].ret.k = "result"

\* The status the text of ALLOTED stands for: it has 'allot' and neither
\* 'non' nor 'not'; it has 'non-allot' or 'not allot'; any other
BigshareStatusOf(alloted) ==
    LET v == toLowerCase(alloted)
    IN IF includes(v, <<"a","l","l","o","t">>) /\ ~includes(v, <<"n","o","n">>) /\ ~includes(v, <<"n","o","t">>)
       THEN "Allotted"
       ELSE IF includes(v, <<"n","o","n","-","a","l","l","o","t">>) \/ includes(v, <<"n","o","t"," ","a","l","l","o","t">>)
       THEN "Not Allotted"
       ELSE "Pending"

\* C18: checkBigshare, given an application record, returns Allotted when
\* the ALLOTED text contains 'allot' and neither 'non' nor 'not', NotAllotted
\* when it contains 'non-allot' or 'not allot', and Pending for any other
\* text; without an application record it returns NoRecordFound.  This
\* holds for every ALLOTED text, 'Not Allotted' among them.
C18_BigshareStatusFollowsAllotedText ==
    \A p \in Procs :
        Classified(p, {"bigshare"}) =>
            LET d == proc[p].taken.resp.data.d
            IN proc[p].ret.val.status =
                  IF d.APPLICATION_NO # "" /\ d.DPID # "No data found"
                  THEN BigshareStatusOf(d.ALLOTED)
                  ELSE "No Record Found"

\* The number a text of digits stands for is positive
PositiveNumber(text) == IsNumeric(text) /\ DigitsValue(text) > 0

\* C19: checkMufg and checkLinkIntime classify by the allotted field of the
\* first record of the response: a number above 0 gives Allotted, '0' or the
\* empty text NotAllotted, anything else Pending; a response without record
\* rows always gives NoRecordFound, also when it has an error-message table
\* whose message is empty.
C19_MufgStatusFollowsFirstRecord ==
    \A p \in Procs :
        Classified(p, {"linkintime", "mufg"}) =>
            LET tables == proc[p].taken.resp.data.tables
            IN proc[p].ret.val.status =
                  IF Len(tables) = 0 THEN "No Record Found"
                  ELSE IF PositiveNumber(tables[1].ALLOT) THEN "Allotted"
                  ELSE IF tables[1].ALLOT \in { <<"0">>, <<>> } THEN "Not Allotted"
                  ELSE "Pending"

\* The text of a cell parses to a positive number: after the blanks it
\* starts with digits that are not all 0
ParsesPositive(cell) ==
    \E n \in 1..Len(trim(cell)) : PositiveNumber(SubSeq(trim(cell), 1, n))

\* C20: checkPurva returns NoRecordFound when the response has no table or
\* a table with the header row only; when the table has data rows it returns
\* Allotted if the allotted-shares cell of any data row parses to a positive
\* number, and NotAllotted otherwise.
C20_PurvaStatusFollowsDataRows ==
    \A p \in Procs :
        Classified(p, {"purva"}) =>
            LET page == proc[p].taken.resp.data
            IN proc[p].ret.val.status =
                  IF ~page.hasTable \/ Len(page.rows) <= 1 THEN "No Record Found"
                  ELSE IF \E i \in 2..Len(page.rows) :
                             Len(page.rows[i]) >= 6 /\ ParsesPositive(page.rows[i][6])
                  THEN "Allotted"
                  ELSE "Not Allotted"

\* checkPurva returned Allotted for a table whose first data row has 0
\* shares and whose second has 50
C20_Witness ==
    \E p \in Procs :
        /\ Classified(p, {"purva"})
        /\ proc[p].taken.resp.data.rows =
              PurvaHeader \o << PurvaDataRow(<<"0">>), PurvaDataRow(<<"5","0">>) >>
        /\ proc[p].ret.val.status = "Allotted"

\* ------------------------------------------------------------------------
\* Properties of checkCameo
\* ------------------------------------------------------------------------

\* The response signals that a captcha is required
Challenge(resp) == resp.ok /\ resp.data.captchaScript

\* C21: checkCameo, on a response that asks for no captcha and whose table
\* has two or more rows, looks at the allotted-shares cell of every data
\* row: the status is Allotted if any data row has a positive value there
\* and NotAllotted otherwise, whatever the order of the data rows.
C21_CameoStatusFollowsAnyDataRow ==
    \A p \in Procs :
        (Classified(p, {"cameo"}) /\ ~Challenge(proc[p].taken.resp)
         /\ Len(proc[p].taken.resp.data.tables[1]) >= 2) =>
            LET rows == proc[p].taken.resp.data.tables[1]
            IN proc[p].ret.val.status =
                  IF \E i \in 2..Len(rows) : PositiveNumber(trim(rows[i].cells[2]))
                  THEN "Allotted"
                  ELSE "Not Allotted"

\* The form POSTs of the request of p that failed at transport level
FailedPosts(p) == { f \in proc[p].failed : f.call.kind = "query" }

\* C22: when every captcha value checkCameo submits to an endpoint is
\* answered with the signal that a captcha is required, checkCameo returns
\* success=false with the status CaptchaRequired and not Error; and it
\* returns CaptchaRequired only then: every form POST of the call was
\* answered, and with that signal.
C22_CaptchaRequiredOnlyAfterChallenges ==
    \A p \in Procs :
        (proc[p].pc = "done" /\ proc[p].registrar = "cameo" /\ proc[p].ret.k = "result") =>
            /\ (/\ proc[p].taken.call.kind = "query"
                /\ proc[p].taken.call.captcha = captchaStrategies(BatchDraw)[5]
                /\ Challenge(proc[p].taken.resp)
                /\ FailedPosts(p) = {}) =>
                   /\ ~proc[p].ret.val.success
                   /\ proc[p].ret.val.status = "captcha_required"
            /\ proc[p].ret.val.status = "captcha_required" =>
                   /\ proc[p].taken.call.kind = "query"
                   /\ Challenge(proc[p].taken.resp)
                   /\ FailedPosts(p) = {}

C24_TokenFailureDoesNotAbort ==
    [][\A p \in Procs :
          (proc'[p] # proc[p] /\ proc[p].pc = "running"
           /\ proc[p].registrar \in {"linkintime", "mufg"}) =>
             /\ \A b \in net[p] :
                   (b.kind = "token" /\ ~proc'[p].taken.resp.ok) =>
                      /\ proc'[p].pc = "running"
                      /\ \E c \in net'[p] :
                            /\ c.kind = "query"
                            /\ c.token = <<>>
                            /\ c.company = proc[p].loc.companyId
                            /\ c.pan = proc[p].req.panNo
             /\ \A b \in net[p] :
                   b.kind = "query" =>
                      /\ proc'[p].pc = "done"
                      /\ proc'[p].ret.k = "result"
                      /\ \A token \in { <<>>, <<"t","k">> } :
                            Resume(Store, proc[p].req, [proc[p].loc EXCEPT !.token = token],
                                   b, proc'[p].taken.resp, clock, BatchDraw).val
                               = proc'[p].ret.val]_vars

\* checkMufg returned the status of the search response after its token
\* request had failed
C24_Witness ==
    \E p \in Procs :
        /\ Classified(p, {"mufg"})
        /\ \E f \in proc[p].failed : f.call.kind = "token"
        /\ proc[p].ret.val.success
        /\ proc[p].ret.val.status = "Allotted"

\* ------------------------------------------------------------------------
\* Properties of the company code the checkers submit
\* ------------------------------------------------------------------------

\* C25: when ipoName is all digits, a checker that needs a company code
\* (bigshare, mufg, linkintime, purva) fetches no company listing and submits
\* the identifier unchanged as the company code of its allotment query.
C25_NumericIdentifierIsUsedDirectly ==
    \A p \in Procs :
        (proc[p].op = "one" /\ proc[p].registrar \in Resolving
         /\ IsNumeric(proc[p].req.ipoName)) =>
            \A c \in net[p] :
                /\ c.kind # "list"
                /\ c.kind = "query" => c.company = proc[p].req.ipoName

\* A company label matches the name by some test of some resolver
LabelMatches(label, ipoName) ==
    \/ BigshareLadder(toLowerCase(trim(label)), trim(toLowerCase(ipoName)))
    \/ MufgTableMatches([companyname |-> label, company_id |-> label], ipoName)

\* C26: an allotment query carries either the identifier the caller gave or
\* the code of a listed company whose label the name matches: a name that
\* matches no listed company never leads to a query for some other company.
C26_NoQueryForAnUnmatchedCompany ==
    \A p \in Procs :
        \A c \in net[p] :
            (c.kind = "query" /\ IsString(proc[p].req.ipoName)
             /\ c.registrar \in Resolving \cup {"cameo"}) =>
                \/ c.company = proc[p].req.ipoName
                \/ /\ c.company = AbOption.value
                   /\ LabelMatches(AbOption.text, proc[p].req.ipoName)

\* ------------------------------------------------------------------------
\* The resolvers over listings of several companies
\* ------------------------------------------------------------------------

\* The companies listed and the names asked for
LadderOptions ==
    { [text |-> <<"A","b","c"," ","X","y","z"," ","L","t","d">>, value |-> <<"1">>],
      [text |-> <<"A","b","c"," ","X","y","z">>, value |-> <<"2">>],
      [text |-> <<"X","y","z"," ","A","b","c">>, value |-> <<"3">>],
      [text |-> <<"A","b","c"," ","Q","q","q">>, value |-> <<"4">>] }
LadderNames ==
    { <<"a","b","c"," ","x","y","z">>, <<"A","b","c"," ","X","y","z"," ","L","t","d"," ">>, <<"a","b","c"," ","r","r","r">>, <<"a","b","c"," ","r","r","r"," ","s","s","s">>, <<"z","z"," ","a","b","c"," ","r","r">>,
      <<"z","z","z">> }

\* Listings of one or two companies, in either order
LadderListings ==
    { << o >> : o \in LadderOptions }
    \cup { pair \in { << o1, o2 >> : o1 \in LadderOptions, o2 \in LadderOptions } :
             pair[1] # pair[2] }

\* The same labels and ids in the shape of each registrar's listing
ListingOf(registrar, options) ==
    CASE registrar = "bigshare" ->
           BigshareListing(<< [id |-> DDL_COMPANY, name |-> DDL_COMPANY,
                               options |-> options] >>)
      [] registrar = "mufg" ->
           [type |-> "json", hasD |-> TRUE,
            tables |-> [i \in DOMAIN options |->
                           [companyname |-> options[i].text,
                            company_id |-> options[i].value]]]
      [] registrar = "purva" ->
           [type |-> "page", csrf |-> <<"t","o","k">>, options |-> options]

LadderAnswers(call) ==
    IF call.kind = "list"
    THEN { Ok(ListingOf(call.registrar, options)) : options \in LadderListings }
    ELSE { a \in BatchAnswers(call) : a.ok }

\* IPOAllotmentService.checkRegistrar for a registrar with a resolver
StartLadder(p) ==
    /\ proc[p].pc = "idle"
    /\ proc[p].served < MaxRequests
    /\ \E registrar \in {"bigshare", "mufg", "purva"}, ipoName \in LadderNames :
          LET req == [panNo |-> PAN, ipoName |-> ipoName]
          IN StepTaking(p, registrar, req, checkRegistrar(registrar, Store, req, clock),
                        NoCall, NoAnswer)

\* The response to the outbound call of the request arrives
RespondLadder(p) ==
    /\ proc[p].pc = "running"
    /\ \E call \in net[p] : \E resp \in LadderAnswers(call) :
          StepTaking(p, proc[p].registrar, proc[p].req,
                     checkRegistrar_resumed(Store, proc[p].req, proc[p].loc, call, resp,
                                            clock, BatchDraw),
                     call, resp)

NextLadder ==
    \/ \E p \in Procs : StartLadder(p)
    \/ \E p \in Procs : RespondLadder(p)
    \/ \E p \in Procs : Finish(p)

SpecLadder == Init /\ [][NextLadder]_vars

\* The request of p for `registrar` has just taken the listing `options`
Listed(p, registrar, options) ==
    /\ proc[p].pc # "idle"
    /\ proc[p].registrar = registrar
    /\ proc[p].taken.call.kind = "list"
    /\ proc[p].taken.resp = Ok(ListingOf(registrar, options))

\* What the resolver call of the request of p returned after its fetch, null
\* while it has not ended
ResolverOf(registrar) ==
    CASE registrar = "bigshare" -> "getBigshareCompanyId"
      [] registrar = "mufg" -> "getMufgCompanyId"
      [] registrar = "purva" -> "getPurvaCompanyId"
ResolverGave(p) ==
    LET mine == SelectSeq(resolves,
                          LAMBDA rec : /\ rec.fn = ResolverOf(proc[p].registrar)
                                       /\ rec.key = cacheKey(proc[p].req.ipoName)
                                       /\ rec.fetches > 0)
    IN IF mine = <<>> THEN Null ELSE mine[Len(mine)].ret

\* The label equals the name, both trimmed and without regard to case
EqualsExactly(label, ipoName) == toLowerCase(trim(label)) = toLowerCase(trim(ipoName))

\* C27: when some listed label equals the name exactly, getBigshareCompanyId
\* returns the id of the first such company, also when a company that matches
\* by a lower rung only is listed before it.
C27_ExactMatchBeforeLowerRungs ==
    \A p \in Procs : \A options \in LadderListings :
        Listed(p, "bigshare", options) =>
            \A i \in DOMAIN options :
                (/\ EqualsExactly(options[i].text, proc[p].req.ipoName)
                 /\ \A j \in 1..(i - 1) :
                       ~EqualsExactly(options[j].text, proc[p].req.ipoName)) =>
                    ResolverGave(p) = options[i].value

\* C28: the three resolvers accept the same company of a listing with the
\* same labels and ids, or all return null: what the resolver of one
\* registrar returned for a listing is what the scans of the other two give
\* for it.
C28_ResolversAgree ==
    \A p \in Procs : \A options \in LadderListings :
        \A registrar \in {"bigshare", "mufg", "purva"} :
            Listed(p, registrar, options) =>
                /\ ResolverGave(p) = BigshareScanPage(ListingOf("bigshare", options).selects,
                                                   proc[p].req.ipoName)
                /\ ResolverGave(p) = MufgScanTables(ListingOf("mufg", options).tables,
                                                 proc[p].req.ipoName)
                /\ ResolverGave(p) = PurvaScanOptions(ListingOf("purva", options).options,
                                                   proc[p].req.ipoName)

\* The tokens of a text: its parts between white space that are longer than
\* two characters, in order
RECURSIVE Tokens(_)
Tokens(s) ==
    IF s = <<>> THEN <<>>
    ELSE IF IsSpace(Head(s)) THEN Tokens(Tail(s))
    ELSE LET n == CHOOSE k \in 1..Len(s) :
                      /\ \A i \in 1..k : ~IsSpace(s[i])
                      /\ (k = Len(s) \/ IsSpace(s[k + 1]))
         IN (IF n > 2 THEN << SubSeq(s, 1, n) >> ELSE <<>>)
            \o Tokens(SubSeq(s, n + 1, Len(s)))

\* The name has a token, and at least half of its tokens contain, or are
\* contained in, some token of the label; both without their stop words
TokenOverlap(label, ipoName) ==
    LET Overlap(ct, qt) ==
            LET matched == { i \in DOMAIN qt :
                               \E j \in DOMAIN ct :
                                   includes(qt[i], ct[j]) \/ includes(ct[j], qt[i]) }
            IN Len(qt) >= 1 /\ 2 * Cardinality(matched) >= Len(qt)
    IN Overlap(Tokens(RemoveStopWords(toLowerCase(trim(label)))),
               Tokens(RemoveStopWords(trim(toLowerCase(ipoName)))))

\* The label passes one of the three tests before the word test
HigherRung(label, ipoName) ==
    LET Rungs(optionText, searchName) ==
            \/ ExactMatch(optionText, searchName)
            \/ PartialMatch(optionText, searchName)
            \/ FuzzyMatch(optionText, searchName)
    IN Rungs(toLowerCase(trim(label)), trim(toLowerCase(ipoName)))

Procs2 == {"p1", "p2"}

InitTwo ==
    /\ clock = 0
    /\ bigshareCompanyIdCache = <<>>
    /\ mufgCompanyIdCache = <<>>
    /\ purvaCompanyIdCache = <<>>
    /\ proc = [p \in Procs2 |-> Idle(0)]
    /\ net = [p \in Procs2 |-> {}]
    /\ resolves = <<>>

\* The name and the registrar of the requests so far, if any
Asked == { << proc[q].registrar, proc[q].req.ipoName >> : q \in { r \in Procs2 : proc[r].pc # "idle" } }

\* IPOAllotmentService.checkRegistrar, for the registrar and the name of the
\* request under way if there is one
StartSame(p) ==
    /\ proc[p].pc = "idle"
    /\ proc[p].served < MaxRequests
    /\ \E registrar \in {"bigshare", "mufg"}, ipoName \in {NAME_AB, NAME_XY} :
          /\ Asked \subseteq { << registrar, ipoName >> }
          /\ LET req == [panNo |-> PAN, ipoName |-> ipoName]
             IN Step(p, "one", registrar, req, checkRegistrar(registrar, Store, req, clock),
                     {}, FALSE, NoStore)

NextTwo ==
    \/ \E p \in Procs2 : StartSame(p)
    \/ \E p \in Procs2 : RespondOne(p)
    \/ \E p \in Procs2 : Finish(p)

SpecTwo == InitTwo /\ [][NextTwo]_vars

\* The cache of the resolver of a registrar
RegistrarCache(registrar) ==
    IF registrar = "bigshare" THEN bigshareCompanyIdCache ELSE mufgCompanyIdCache

\* The entries of a cache under a key
EntriesAt(m, k) == { i \in DOMAIN m : m[i].key = k }

\* Both requests have ended, each after a resolver call that missed the cache
BothResolved ==
    /\ \A p \in Procs2 : proc[p].pc = "done"
    /\ Len(resolves) = 2
    /\ \A i \in 1..2 : resolves[i].fetches > 0

\* C30: after two concurrent requests for the same name and registrar that
\* both missed the cache, the cache holds one entry for the name, with the id
\* a resolver call returned; and no step replaces the id of an entry that
\* is less than 24 hours old by null.
C30_DuplicateLookupsAreIdempotent ==
    /\ [](BothResolved =>
            \A p \in Procs2 :
                LET m   == RegistrarCache(proc[p].registrar)
                    key == cacheKey(proc[p].req.ipoName)
                IN /\ Cardinality(EntriesAt(m, key)) = 1
                   /\ \E i \in 1..2 : MapGet(m, key).id = resolves[i].ret)
    /\ [][\A registrar \in {"bigshare", "mufg"} :
             \A i \in DOMAIN RegistrarCache(registrar) :
                 LET e == RegistrarCache(registrar)[i]
                 IN (e.id # Null /\ clock' - e.timestamp < CACHE_DURATION) =>
                        \E j \in DOMAIN RegistrarCache(registrar)' :
                            /\ RegistrarCache(registrar)'[j].key = e.key
                            /\ RegistrarCache(registrar)'[j].id # Null]_vars

\* ------------------------------------------------------------------------
\* Properties of the sweep and of the flush
\* ------------------------------------------------------------------------

\* The entries of a cache that are older than 24 hours at `now`
Expired(m, now) == { i \in DOMAIN m : now - m[i].timestamp > CACHE_DURATION }

\* C31: a step of a request that writes to the cache of a resolver leaves in
\* that cache no entry older than 24 hours, and leaves the caches of the
\* other resolvers as they were.
C31_WriteSweepsOwnCacheOnly ==
    [][\A p \in Procs :
          proc'[p] # proc[p] =>
             /\ bigshareCompanyIdCache' # bigshareCompanyIdCache =>
                  /\ Expired(bigshareCompanyIdCache', clock') = {}
                  /\ UNCHANGED << mufgCompanyIdCache, purvaCompanyIdCache >>
             /\ mufgCompanyIdCache' # mufgCompanyIdCache =>
                  /\ Expired(mufgCompanyIdCache', clock') = {}
                  /\ UNCHANGED << bigshareCompanyIdCache, purvaCompanyIdCache >>
             /\ purvaCompanyIdCache' # purvaCompanyIdCache =>
                  /\ Expired(purvaCompanyIdCache', clock') = {}
                  /\ UNCHANGED << bigshareCompanyIdCache, mufgCompanyIdCache >>]_vars

\* A second resolver call wrote to the BigShare cache more than 24 hours
\* after the first wrote an entry under another key, and the cache holds the
\* new entry only
C31_Witness ==
    /\ Len(resolves) = 2
    /\ \A i \in 1..2 : resolves[i].fn = "getBigshareCompanyId" /\ resolves[i].fetches > 0
    /\ resolves[1].key # resolves[2].key
    /\ resolves[2].end - resolves[1].end > CACHE_DURATION
    /\ Len(bigshareCompanyIdCache) = 1
    /\ bigshareCompanyIdCache[1].key = resolves[2].key

\* C32: a flush leaves the named cache empty and the two other caches as they
\* were; and a resolver call that ends having found its cache empty, as it
\* is after the flush, has fetched the listing.
C32_FlushEmptiesOneCacheAndForcesFetch ==
    [][/\ clearBigshareCache =>
            /\ bigshareCompanyIdCache' = <<>>
            /\ UNCHANGED << mufgCompanyIdCache, purvaCompanyIdCache >>
       /\ clearMufgCache =>
            /\ mufgCompanyIdCache' = <<>>
            /\ UNCHANGED << bigshareCompanyIdCache, purvaCompanyIdCache >>
       /\ clearPurvaCache =>
            /\ purvaCompanyIdCache' = <<>>
            /\ UNCHANGED << bigshareCompanyIdCache, mufgCompanyIdCache >>
       /\ \A p \in Procs :
             (proc'[p] # proc[p] /\ resolves' # resolves /\ resolves' # <<>>) =>
                LET rec == resolves'[Len(resolves')]
                IN (CacheOf(rec.fn) = <<>> /\ ~rec.raised) => rec.fetches > 0]_vars

\* The BigShare cache was flushed after the request under way had resolved
\* its name, and the MUFG cache still holds its entry
C32_Witness ==
    \E p \in Procs :
        /\ proc[p].pc = "running"
        /\ proc[p].registrar = "bigshare"
        /\ proc[p].req.ipoName = NAME_AB
        /\ \E c \in net[p] : c.kind = "query" /\ c.company = NAME_42
        /\ bigshareCompanyIdCache = <<>>
        /\ mufgCompanyIdCache # <<>>

\* ------------------------------------------------------------------------
\* Properties of the order of the outbound calls
\* ------------------------------------------------------------------------

\* The response gave the page of the Purva form with an anti-forgery token
HasCsrf(resp) == resp.ok /\ ~IsGarbage(resp.data) /\ resp.data.csrf # <<>>

\* C33: checkPurva begins with the GET of the form page; it goes on to its
\* resolver or to the form POST only from a page that gave a token, and the
\* POST carries that token; when the page gives no token the result is an
\* error, with no resolver call and no POST.
C33_PurvaPostOnlyWithPageToken ==
    [][\A p \in Procs :
          (proc'[p] # proc[p] /\ proc'[p].registrar = "purva") =>
             /\ proc[p].pc = "idle" =>
                   \A c \in net'[p] : c.kind = "page" /\ c.url = PurvaUrl
             /\ \A b \in net[p] :
                   b.kind = "page" =>
                      IF HasCsrf(proc'[p].taken.resp)
                      THEN /\ proc'[p].pc = "running"
                           /\ proc'[p].loc.csrf = proc'[p].taken.resp.data.csrf
                           /\ \A c \in net'[p] : c.kind \in {"list", "query"}
                      ELSE /\ proc'[p].pc = "done"
                           /\ ~proc'[p].ret.val.success
                           /\ proc'[p].ret.val.status = "error"
                           /\ net'[p] = {}
                           /\ resolves' = resolves
             /\ \A b \in net[p] :
                   b.kind = "list" => proc'[p].loc.csrf = proc[p].loc.csrf
             /\ \A c \in net'[p] :
                   c.kind = "query" =>
                      /\ c.token = proc'[p].loc.csrf
                      /\ c.token # <<>>
                      /\ \E b \in net[p] : b.kind \in {"page", "list"}]_vars

\* checkPurva has posted the form with the token of the page after its
\* resolver fetched the listing
C33_Witness ==
    \E p \in Procs :
        /\ proc[p].registrar = "purva"
        /\ proc[p].pc = "running"
        /\ proc[p].taken.call.kind = "list"
        /\ \E c \in net[p] : c.kind = "query" /\ c.token = <<"t","o","k">>

\* The GET of a Cameo endpoint failed, or its page has no view state or
\* lists no company
CameoSkipped(resp) ==
    \/ ~resp.ok
    \/ IsGarbage(resp.data)
    \/ resp.data.viewState = <<>>
    \/ CameoCompanies(resp.data.options) = <<>>

AllEndpointsUnavailable(p) ==
    /\ proc[p].pc = "done"
    /\ proc[p].ret.val.status = "error"
    /\ proc[p].ret.val.error = "All Cameo endpoints are unavailable"

\* C34: checkCameo reads its endpoints in order from the first; it goes from
\* one to the next exactly when the GET failed or the page has no view state
\* or lists no company, and otherwise posts the form to the endpoint it
\* read; after a form POST it reads no endpoint; and it returns 'All Cameo
\* endpoints are unavailable' exactly when the third endpoint is skipped too.
C34_CameoEndpointsInOrder ==
    [][\A p \in Procs :
          (proc'[p] # proc[p] /\ proc'[p].registrar = "cameo") =>
             /\ proc[p].pc = "idle" =>
                   \A c \in net'[p] : c.kind = "page" /\ c.url = CameoEndpoints[1]
             /\ \A b \in net[p] :
                   b.kind = "page" =>
                      IF CameoSkipped(proc'[p].taken.resp)
                      THEN IF proc[p].loc.endpoint < Len(CameoEndpoints)
                           THEN /\ proc'[p].pc = "running"
                                /\ \A c \in net'[p] :
                                      /\ c.kind = "page"
                                      /\ c.url = CameoEndpoints[proc[p].loc.endpoint + 1]
                           ELSE AllEndpointsUnavailable(p)'
                      ELSE /\ proc'[p].pc = "running"
                           /\ \A c \in net'[p] : c.kind = "query" /\ c.url = b.url
             /\ \A b \in net[p] :
                   b.kind = "query" =>
                      /\ \A c \in net'[p] : c.kind = "query" /\ c.url = b.url
                      /\ ~AllEndpointsUnavailable(p)']_vars

\* ------------------------------------------------------------------------
\* Properties of checkKfintech
\* ------------------------------------------------------------------------

\* The request of p is a checkKfintech call that the response to its request
\* has just ended
KfintechAnswered(p) ==
    /\ proc[p].registrar = "kfintech"
    /\ proc[p].pc = "done"
    /\ proc[p].taken.call.kind = "query"

\* C35: checkKfintech answers an HTTP 404 of the upstream with success=true
\* and status 'No Record Found', and every other failure of the request
\* (timeout, no connection, another status outside 2xx) with success=false
\* and status 'Error'.
C35_Kfintech404IsNoRecordFound ==
    \A p \in Procs :
        (KfintechAnswered(p) /\ ~proc[p].taken.resp.ok) =>
            IF proc[p].taken.resp.kind = "http404"
            THEN /\ proc[p].ret.val.success
                 /\ proc[p].ret.val.status = "No Record Found"
            ELSE /\ ~proc[p].ret.val.success
                 /\ proc[p].ret.val.status \in ErrorStatus
                 /\ proc[p].taken.resp.kind \in {"timeout", "network", "http500"}

\* checkKfintech has answered a 404
C35_Witness ==
    \E p \in Procs :
        /\ KfintechAnswered(p)
        /\ proc[p].taken.resp = Fail("http404")
        /\ proc[p].ret.val.success

\* The request with another name in place of its own
Renamed(req, ipoName) == [req EXCEPT !.ipoName = ipoName]
OtherNames == {NAME_AB, NAME_XY, NAME_42, NonString}

\* C39: the request checkKfintech sends and the result it returns are those
\* of a call with the same panNo and any other ipoName: the request is the
\* same, and so is the result for the same response.
C39_KfintechDependsOnPanOnly ==
    [][\A p \in Procs :
          (proc'[p] # proc[p] /\ proc'[p].registrar = "kfintech") =>
             /\ proc[p].pc = "idle" =>
                   /\ net'[p] # {}
                   /\ \A ipoName \in OtherNames :
                         LET o == checkRegistrar("kfintech", Store,
                                                 Renamed(proc'[p].req, ipoName), clock)
                         IN o.calls = net'[p] /\ o.pc = proc'[p].pc
                   /\ \A c \in net'[p] : c.pan = proc'[p].req.panNo
             /\ \A b \in net[p] :
                   /\ proc'[p].pc = "done"
                   /\ \A ipoName \in OtherNames :
                         Resume(Store, Renamed(proc[p].req, ipoName), proc[p].loc, b,
                                proc'[p].taken.resp, clock, BatchDraw).val
                            = proc'[p].ret.val]_vars

\* checkKfintech has answered Allotted to a request for the name 'xy'
C39_Witness ==
    \E p \in Procs :
        /\ KfintechAnswered(p)
        /\ proc[p].req.ipoName = NAME_XY
        /\ proc[p].ret.val.status = "Allotted"

\* ------------------------------------------------------------------------
\* Termination
\* ------------------------------------------------------------------------

\* The response to the outbound call of a batch arrives, the network being
\* down for good once a call of the batch has timed out
RespondAllOutage(p) ==
    /\ proc[p].pc = "running"
    /\ proc[p].op = "all"
    /\ \E call \in net[p] :
          \E resp \in { a \in BatchAnswers(call) : proc[p].failed # {} => ~a.ok } :
             Step(p, "all", None, proc[p].req,
                  checkAllRegistrars_resumed(Store, proc[p].req, proc[p].idx,
                                             proc[p].results, proc[p].loc, call, resp,
                                             clock, BatchDraw),
                  FailedWith(p, call, resp), QueryFailedWith(p, call, resp),
                  proc[p].start)

\* One request, for one registrar or for all, whose outbound calls are all
\* answered in the end: the HTTP client has a timeout
NextLive ==
    \/ \E p \in Procs : StartOne(p)
    \/ \E p \in Procs : RespondOne(p)
    \/ \E p \in Procs : StartAll(p)
    \/ \E p \in Procs : RespondAllOutage(p)
    \/ \E p \in Procs : Finish(p)

SpecLive ==
    /\ Init
    /\ [][NextLive]_vars
    /\ \A p \in Procs : WF_vars(RespondOne(p)) /\ WF_vars(RespondAllOutage(p))

\* C36: every checkRegistrar and checkAllRegistrars call that awaits an
\* outbound call returns in the end, whatever the answers: no checker goes
\* round its URLs, endpoints, selectors or captcha values without end.
C36_EveryCallReturns ==
    \A p \in Procs : (proc[p].pc = "running") ~> (proc[p].pc = "done")

\* checkAllRegistrars has returned its ten results after calls that failed
C36_Witness ==
    \E p \in Procs :
        /\ proc[p].op = "all"
        /\ proc[p].pc = "done"
        /\ Len(proc[p].results) = 10
        /\ proc[p].failed # {}

\* ------------------------------------------------------------------------
\* checkBigshare from the name to the result
\* ------------------------------------------------------------------------

\* The request of p is a checkBigshare call for a free-text name
BigshareByName(p) ==
    /\ proc[p].op = "one"
    /\ proc[p].registrar = "bigshare"
    /\ IsString(proc[p].req.ipoName)
    /\ ~IsNumeric(proc[p].req.ipoName)

\* The detail requests of p that await their response
DetailRequests(p) == { c \in net[p] : c.kind = "query" }

ALLOTTED_50_SHARES == <<"A","l","l","o","t","t","e","d"," ","5","0"," ","s","h","a","r","e","s">>

\* C37: for a free-text name checkBigshare has called getBigshareCompanyId
\* for that name before its detail request is out; the one detail request
\* carries the id the resolver returned, or the caller's name when it
\* returned none, and with its response the call returns.  With the listed
\* option of value 42 resolved and ALLOTED 'Allotted 50 shares' the result
\* is success, registrar bigshare, status Allotted.
C37_BigshareResolvesThenQueriesOnce ==
    \A p \in Procs :
        BigshareByName(p) =>
            /\ Cardinality(DetailRequests(p)) <= 1
            /\ \A c \in DetailRequests(p) :
                  /\ resolves # <<>>
                  /\ LET rec == resolves[Len(resolves)]
                     IN /\ rec.fn = "getBigshareCompanyId"
                        /\ rec.key = cacheKey(proc[p].req.ipoName)
                        /\ c.company = IF rec.ret # Null THEN rec.ret
                                       ELSE proc[p].req.ipoName
                  /\ c.pan = proc[p].req.panNo
                  /\ proc[p].taken.call.kind # "query"
            /\ proc[p].taken.call.kind = "query" =>
                  /\ proc[p].pc = "done"
                  /\ net[p] = {}
            /\ (/\ proc[p].taken.call.kind = "query"
                /\ proc[p].taken.call.company = AbOption.value
                /\ proc[p].taken.resp = Ok(BigshareRecord(ALLOTTED_50_SHARES))) =>
                  /\ proc[p].ret.k = "result"
                  /\ proc[p].ret.val.success
                  /\ proc[p].ret.val.registrar = "bigshare"
                  /\ proc[p].ret.val.status = "Allotted"

\* checkBigshare returned Allotted for the name that resolved to 42
C37_Witness ==
    \E p \in Procs :
        /\ BigshareByName(p)
        /\ proc[p].pc = "done"
        /\ proc[p].req.ipoName = NAME_AB
        /\ proc[p].taken.call.kind = "query"
        /\ proc[p].taken.call.company = AbOption.value
        /\ proc[p].taken.resp = Ok(BigshareRecord(ALLOTTED_50_SHARES))
        /\ proc[p].ret.val.status = "Allotted"

\* ------------------------------------------------------------------------
\* checkAllotmentWithIPONinja: the PANs are tested before any call
\* ------------------------------------------------------------------------

\* The places of the list whose element fails the relaxed pattern
FailingPlaces(pancards) == { i \in DOMAIN pancards : ~RelaxedPanShape(pancards[i]) }

\* The request of p reached the PAN test of checkAllotmentWithIPONinja
NinjaTested(q) == q.op = "ninja" /\ ~Falsy(q.req.ipoid) /\ ~PancardFalsy(q.req.pancard)

\* C38: when an element of the pancard list fails the relaxed PAN pattern,
\* checkAllotmentWithIPONinja answers 400 'Invalid PAN format' with the first
\* such element as invalidPan, and makes no call to the IPONinja API, not for
\* the valid PANs before that element either; a call to the API is out only
\* for a list all of whose elements pass.
C38_AllPansTestedBeforeAnyCall ==
    /\ [][\A p \in Procs :
             (proc[p].pc = "idle" /\ NinjaTested(proc'[p])) =>
                LET pancards == pancardsOf(proc'[p].req.pancard)
                    failing == FailingPlaces(pancards)
                IN failing # {} =>
                      /\ proc'[p].pc = "done"
                      /\ PanRefused(proc'[p].ret)
                      /\ proc'[p].ret.invalidPan \in { pancards[i] : i \in failing }
                      /\ \A i \in failing :
                            (\A j \in failing : i <= j) =>
                               proc'[p].ret.invalidPan = pancards[i]
                      /\ net'[p] = {}
                      /\ proc'[p].results = <<>>]_vars
    /\ [](\A p \in Procs :
             (proc[p].op = "ninja" /\ (net[p] # {} \/ proc[p].results # <<>>)) =>
                FailingPlaces(pancardsOf(proc[p].req.pancard)) = {})

\* A list whose first PAN passes and whose second fails was answered 400
\* with the second as invalidPan
C38_Witness ==
    \E p \in Procs :
        /\ proc[p].op = "ninja" /\ proc[p].pc = "done"
        /\ proc[p].req.pancard = Array(<< PAN, PAN_lower >>)
        /\ PanRefused(proc[p].ret)
        /\ proc[p].ret.invalidPan = PAN_lower
        /\ proc[p].results = <<>>

\* ------------------------------------------------------------------------
\* checkLinkIntime and checkMufg side by side
\* ------------------------------------------------------------------------

MufgFamily == {"linkintime", "mufg"}

\* What a step of a checker comes to, without the registrar label and the
\* details text, and without the fields that record the past: where it
\* stands, the calls it has out, its company id and token, the result, and
\* the caches
Unlabelled(o) ==
    [pc |-> o.pc,
     calls |-> { [url |-> c.url, kind |-> c.kind, company |-> c.company, pan |-> c.pan,
                  token |-> c.token, captcha |-> c.captcha] : c \in o.calls },
     companyId |-> o.loc.companyId,
     token |-> o.loc.token,
     ret |-> IF o.ret.k = "result"
             THEN [k |-> "result", success |-> o.ret.val.success,
                   status |-> o.ret.val.status, error |-> o.ret.val.error,
                   allotmentDetails |-> o.ret.val.allotmentDetails]
             ELSE o.ret,
     mufg |-> [i \in DOMAIN o.store.mufgCompanyIdCache |->
                  [key |-> o.store.mufgCompanyIdCache[i].key,
                   id |-> o.store.mufgCompanyIdCache[i].id,
                   timestamp |-> o.store.mufgCompanyIdCache[i].timestamp]],
     others |-> << o.store.bigshareCompanyIdCache, o.store.purvaCompanyIdCache >>]

\* The call as the other checker of the two makes it
CallOf(registrar, call) == [call EXCEPT !.registrar = registrar]

\* What the MUFG site may answer a call
MufgAnswers(call) == Answers(call) \cup ClassifyAnswers(call)

\* C40: from the same request and the same caches checkLinkIntime and
\* checkMufg come to the same first call or result, and from the same
\* suspended call and the same response to the same next call or result: the
\* same calls in the same order, the same cache contents, and results with
\* the same success, status, error and allotmentDetails.
C40_LinkIntimeAndMufgAgree ==
    [][\A p \in Procs :
          (proc'[p] # proc[p] /\ proc'[p].op = "one"
           /\ proc'[p].registrar \in MufgFamily) =>
             IF proc[p].pc = "idle"
             THEN Unlabelled(checkRegistrar("linkintime", Store, proc'[p].req, clock))
                  = Unlabelled(checkRegistrar("mufg", Store, proc'[p].req, clock))
             ELSE \A call \in net[p] : \A resp \in MufgAnswers(call) :
                     Unlabelled(checkRegistrar_resumed(
                                    Store, proc[p].req, proc[p].loc,
                                    CallOf("linkintime", call), resp, clock, BatchDraw))
                     = Unlabelled(checkRegistrar_resumed(
                                      Store, proc[p].req, proc[p].loc,
                                      CallOf("mufg", call), resp, clock, BatchDraw))]_vars

\* checkLinkIntime returned Allotted with a company id that checkMufg had
\* put in the cache
C40_Witness ==
    \E p \in Procs :
        /\ proc[p].op = "one" /\ proc[p].registrar = "linkintime"
        /\ proc[p].pc = "done"
        /\ proc[p].ret.k = "result"
        /\ proc[p].ret.val.status = "Allotted"
        /\ proc[p].ret.val.basis.by = "mufg"

=============================================================================
